---- MODULE Spec2Model ----
(***************************************************************************)
(* LighthouseLayoutCoach: the state engine of                              *)
(* src/lighthouse_layout_coach/state_server.py (StateEngine, its poller    *)
(* thread, its diagnostic threads, stop(), get_state()) with the config    *)
(* and session stores of storage.py.                                       *)
(*                                                                         *)
(* Time is counted in units of 0.1 s.  The poller's perf_counter readings  *)
(* are kept relative to the present: next_retry holds                      *)
(* max(0, self.next_retry - perf_counter()), so the code's test            *)
(* `now >= next_retry` is `next_retry = 0`.  Lengths are in 0.1 mm.        *)
(* An Optional value is a sequence: <<>> is None, <<x>> is x.              *)
(***************************************************************************)
EXTENDS Integers, Sequences, FiniteSets, TLC

VARIABLES
    \* StateEngine fields (state_server.py:128-154)
    cfg, connected, last_error, vr_system, play_area, stations, coverage,
    coverage_key, tracker_stats, diag_running, diag_progress, last_metrics,
    last_session, stop_flag, lock, diag_lock,
    \* the world outside the engine: OpenVR runtime, files, wall clock
    vr_inited, cfg_file, session_files, wall_clock, faults,
    \* the poller thread (StateEngine._run) and its locals
    poller_pc, next_retry, now_age, devices, init_attempted,
    \* time since the `now` of the last _update_tracker_stats
    since_tick,
    \* time since the last failed init attempt began, and since the last failed tick
    since_init_fail, since_poll_fail,
    \* the diagnostic threads (StateEngine._run_diagnostic), one per trigger call
    diag_pc, diag_t, diag_dur, diag_samples, diag_exc, diag_roles, diag_snap,
    diag_session,
    \* the caller of stop()
    stop_pc, joined,
    \* a GET /state client
    reader_pc, snap, seen,
    \* the HTTP server (StateHTTPServer): serve_forever is running, the
    \* shutdown_requested event, the request being handled and the last response
    http_serving, shutdown_requested, http_req, http_resp,
    \* a call of one of the pure functions: its arguments and what it returned
    call_args, call_result,
    \* history: the coverage force_recompute() cleared, until the next poll tick
    prior_coverage,
    \* history: the coverage force_recompute() had cleared before the last poll tick
    reset_coverage,
    \* history: a step of an init or of a poll tick was taken since the last get_state
    ticked,
    \* history of the ticks that ran the tracker update: whether each tracker was OK
    \* on the last one that covered it, its OK-to-not-OK pairs so far, and whether
    \* a tracker with such a pair has since stayed not OK over a tick
    tick_history

engine_vars == <<cfg, connected, last_error, vr_system, play_area, stations, coverage,
                 coverage_key, tracker_stats, diag_running, diag_progress, last_metrics,
                 last_session, stop_flag, lock, diag_lock>>
world_vars == <<vr_inited, cfg_file, session_files, wall_clock, faults>>
poller_vars == <<poller_pc, next_retry, now_age, devices, init_attempted,
                 since_tick, since_init_fail, since_poll_fail>>
diag_vars == <<diag_pc, diag_t, diag_dur, diag_samples, diag_exc, diag_roles, diag_snap,
               diag_session>>
stop_vars == <<stop_pc, joined>>
http_vars == <<http_serving, shutdown_requested, http_req, http_resp>>
call_vars == <<call_args, call_result>>
reader_vars == <<reader_pc, snap, seen, http_vars, call_vars>>
history_vars == <<prior_coverage, reset_coverage, ticked, tick_history>>
vars == <<engine_vars, world_vars, poller_vars, diag_vars, stop_vars, reader_vars,
          history_vars>>

-----------------------------------------------------------------------------
(* Bounds of the model *)

\* injected failures (a pose-source call or a file write that raises)
MaxFaults == 2
\* extra time, in 0.1 s, a call or a sleep may take beyond its minimum
MaxLag == 1
\* trigger_diagnostic() calls
MaxDiag == 2
\* the longest requested diagnostic, in sample periods
MaxDuration == 2
\* wall-clock seconds that pass
MaxWall == 1
\* cap of the live dropout counter
MaxDropouts == 2
\* cap of the length of a live jitter window
MaxWindow == 5

(* Program constants, in 0.1 s *)
Cooldown == 10
RetrySleep == 1
\* the length of the live jitter window (state_server.py:433), and the age at
\* which the clock of the model stops telling older entries apart
Window == 10
StaleAge == Window + 1

\* the longest diagnostic of the stage runs, in seconds: past the last stage
StageHorizon == 65

(* coverage.py defaults, in 0.1 mm *)
\* grid_step_m = 0.10
GridStep == 1000
\* log_data.py, compute_heatmap: step_m = 0.25
HeatStep == 2500
\* foot_z_m = 0.15
FootZ == 1500
\* waist_z_m = 1.00
WaistZ == 10000

None == <<>>
Some(x) == <<x>>
NoSerial == ""

Min(a, b) == IF a <= b THEN a ELSE b
Max(a, b) == IF a >= b THEN a ELSE b

DiagIds == 1..MaxDiag

-----------------------------------------------------------------------------
(* Devices, poses, play areas *)

\* 1.0 as an element of a rotation matrix, which counts in 0.0001
RotOne == 10000

Pose(valid, result, pos) ==
    [pose_valid |-> valid, tracking_result |-> result, position_m |-> pos,
     rotation_3x3 |-> <<<<RotOne, 0, 0>>, <<0, RotOne, 0>>, <<0, 0, RotOne>>>>]

Dev(cls, serial, pose) == [cls |-> cls, serial |-> serial, pose |-> pose]

OkPose(pos) == Some(Pose(TRUE, "Running_OK", pos))
BadPose(pos) == Some(Pose(TRUE, "Running_OutOfRange", pos))

DefaultPlayArea ==
    [corners_m |-> <<<<-10000, -10000>>, <<10000, -10000>>, <<10000, 10000>>, <<-10000, 10000>>>>,
     source |-> "default",
     warning |-> Some("Chaperone bounds unavailable; using default 2m x 2m square centered at origin.")]

\* a chaperone rectangle of 0.2 m x 0.2 m: its coverage grid is 3 x 3
ChaperonePlayArea ==
    [corners_m |-> <<<<-1000, -1000>>, <<1000, -1000>>, <<1000, 1000>>, <<-1000, 1000>>>>,
     source |-> "chaperone",
     warning |-> None]

\* what get_play_area can return
PlayAreas == {DefaultPlayArea, ChaperonePlayArea}

-----------------------------------------------------------------------------
(* Config store (storage.py) *)

DefaultConfig ==
    [trackers |-> [left_foot |-> NoSerial, right_foot |-> NoSerial, waist |-> NoSerial],
     base_stations |-> [station_a |-> NoSerial, station_b |-> NoSerial]]

\* the config file: "missing", "corrupt", or the JSON of a config
FileOf(c) == [kind |-> "json", data |-> c]
MissingFile == [kind |-> "missing", data |-> DefaultConfig]
CorruptFile == [kind |-> "corrupt", data |-> DefaultConfig]
\* write_text has truncated the file `old` and not yet written all of c
PartialFile(old, c) == [kind |-> "partial", data |-> c, old |-> old]

load_config(file) == IF file.kind = "json" THEN file.data ELSE DefaultConfig

save_config(c) == FileOf(c)

_tracker_roles_by_serial(c) ==
    LET tr == c.trackers
        keys == {tr.left_foot, tr.right_foot, tr.waist} \ {NoSerial}
    IN  [s \in keys |-> IF tr.waist = s THEN "Waist"
                        ELSE IF tr.right_foot = s THEN "Right Foot"
                        ELSE "Left Foot"]

-----------------------------------------------------------------------------
(* Sequence helpers *)

Take(s, n) == SubSeq(s, 1, Min(n, Len(s)))

SetMin(S) == CHOOSE x \in S : \A y \in S : x <= y
SetMax(S) == CHOOSE x \in S : \A y \in S : x >= y

\* a dict {serial: x} built left to right keeps the last entry of a serial
LastIndexOf(s, serial) ==
    LET idx == {i \in 1..Len(s) : s[i].serial = serial}
    IN  IF idx = {} THEN 0 ELSE CHOOSE i \in idx : \A j \in idx : j <= i

-----------------------------------------------------------------------------
(* The poll tick's state update (state_server.py:385-462) *)

StationPose(serial, p) ==
    [serial |-> serial, position_m |-> p.position_m, rotation_3x3 |-> p.rotation_3x3]

\* returns the stations, the config as mutated in place, and whether it was saved
_select_station_poses(c, devs) ==
    LET want_a == c.base_stations.station_a
        want_b == c.base_stations.station_b
        IsRef(d) == /\ d.cls = "TrackingReference"
                    /\ d.serial # NoSerial
                    /\ d.pose # None
                    /\ d.pose[1].pose_valid
        refs == SelectSeq(devs, IsRef)
        InRefs(serial) == LastIndexOf(refs, serial) # 0
        PoseOf(serial) == refs[LastIndexOf(refs, serial)].pose[1]
        Wanted(serial) == serial # NoSerial /\ InRefs(serial)
        wanted == SelectSeq(<<want_a, want_b>>, Wanted)
        out0 == [i \in 1..Len(wanted) |-> StationPose(wanted[i], PoseOf(wanted[i]))]
        fallback == Len(out0) < 2 /\ Len(refs) >= 2
        adopt == fallback /\ (want_a = NoSerial \/ want_b = NoSerial)
        AddChosen(out, serial) ==
            IF \A i \in 1..Len(out) : out[i].serial # serial
            THEN Append(out, StationPose(serial, PoseOf(serial)))
            ELSE out
        out1 == IF fallback
                THEN AddChosen(AddChosen(out0, refs[1].serial), refs[2].serial)
                ELSE out0
    IN  [cfg |-> IF adopt
                 THEN [c EXCEPT !.base_stations =
                          [station_a |-> refs[1].serial, station_b |-> refs[2].serial]]
                 ELSE c,
         saved |-> adopt,
         stations |-> Take(out1, 2)]

TrackerLiveStats ==
    [prev_ok |-> FALSE, dropouts |-> 0, window |-> <<>>, connected |-> FALSE,
     tracking_ok |-> FALSE, jitter_pos_mm |-> 0, last_pos_m |-> None]

PoseIsOk(pose) ==
    /\ pose # None
    /\ pose[1].pose_valid
    /\ pose[1].tracking_result = "Running_OK"

\* A window entry (t, position) is kept as [age, pos] with age = now - t as of
\* the last tick: after dt more time every entry is dt older.
Aged(window, dt) ==
    [i \in 1..Len(window) |-> [window[i] EXCEPT !.age = Min(StaleAge, @ + dt)]]

\* while st.window and st.window[0][0] < t_min: st.window.pop(0)
RECURSIVE PopStale(_)
PopStale(window) ==
    IF window # <<>> /\ window[1].age > Window THEN PopStale(Tail(window))
    ELSE window

\* the window after a tick: an OK pose is appended and the stale head popped;
\* any other tick leaves the list as it is
WindowAfter(st, pose, dt) ==
    IF PoseIsOk(pose)
    THEN PopStale(Append(Aged(st.window, dt), [age |-> 0, pos |-> pose[1].position_m]))
    ELSE Aged(st.window, dt)

\* the sum over the entries from the i-th on of the offset of coordinate k from
\* that of the first entry, raised to `power` (1 or 2)
RECURSIVE SumOffsets(_, _, _, _)
SumOffsets(window, k, power, i) ==
    IF i > Len(window) THEN 0
    ELSE LET x == window[i].pos[k] - window[1].pos[k]
         IN  (IF power = 2 THEN x * x ELSE x) + SumOffsets(window, k, power, i + 1)

\* _compute_jitter, position part: with n entries and rms the root of the
\* summed per-axis variances, the value kept is (n * rms)^2 in (0.1 mm)^2,
\* and 0 for fewer than 5 entries
_compute_jitter(window) ==
    IF Len(window) < 5 THEN 0
    ELSE LET n == Len(window)
             Axis(k) ==
                 n * SumOffsets(window, k, 2, 1)
                   - SumOffsets(window, k, 1, 1) * SumOffsets(window, k, 1, 1)
         IN  Axis(1) + Axis(2) + Axis(3)

\* stats whose dropout count starts over whenever the tracker is tracking
TrackerTickRecount(st, pose, dt) ==
    LET ok == PoseIsOk(pose)
    IN  [prev_ok |-> ok,
         dropouts |-> IF ok THEN 0 ELSE IF st.prev_ok THEN st.dropouts + 1 ELSE st.dropouts,
         window |-> WindowAfter(st, pose, dt),
         connected |-> pose # None,
         tracking_ok |-> ok,
         jitter_pos_mm |-> _compute_jitter(WindowAfter(st, pose, dt)),
         last_pos_m |-> IF pose # None THEN Some(pose[1].position_m) ELSE st.last_pos_m]

\* stats whose dropout count grows on every tick without an OK pose
TrackerTickLevel(st, pose, dt) ==
    LET ok == PoseIsOk(pose)
    IN  [prev_ok |-> ok,
         dropouts |-> IF ~ok THEN st.dropouts + 1 ELSE st.dropouts,
         window |-> WindowAfter(st, pose, dt),
         connected |-> pose # None,
         tracking_ok |-> ok,
         jitter_pos_mm |-> _compute_jitter(WindowAfter(st, pose, dt)),
         last_pos_m |-> IF pose # None THEN Some(pose[1].position_m) ELSE st.last_pos_m]

\* one tracker's stats after a tick on which its pose is `pose`, dt after the
\* tick before
TrackerTick(st, pose, dt) ==
    LET ok == PoseIsOk(pose)
    IN  [prev_ok |-> ok,
         dropouts |-> IF st.prev_ok /\ ~ok THEN st.dropouts + 1 ELSE st.dropouts,
         window |-> WindowAfter(st, pose, dt),
         connected |-> pose # None,
         tracking_ok |-> ok,
         jitter_pos_mm |-> _compute_jitter(WindowAfter(st, pose, dt)),
         last_pos_m |-> IF pose # None THEN Some(pose[1].position_m) ELSE st.last_pos_m]

\* returns the stats, the config as mutated in place, and whether it was saved
_update_tracker_stats(c, stats, devs, dt) ==
    LET IsTracker(d) == d.cls = "GenericTracker" /\ d.serial # NoSerial
        trs == SelectSeq(devs, IsTracker)
        adopt == /\ Cardinality(DOMAIN _tracker_roles_by_serial(c)) # 3
                 /\ Len(trs) >= 3
        c2 == IF adopt
              THEN [c EXCEPT !.trackers = [left_foot |-> trs[1].serial,
                                           right_foot |-> trs[2].serial,
                                           waist |-> trs[3].serial]]
              ELSE c
        roles == _tracker_roles_by_serial(c2)
        HasSerial(d) == d.serial # NoSerial
        named == SelectSeq(devs, HasSerial)
        by_serial(s) == IF LastIndexOf(named, s) = 0 THEN None
                        ELSE named[LastIndexOf(named, s)].pose
        Old(s) == IF s \in DOMAIN stats THEN stats[s] ELSE TrackerLiveStats
    IN  [cfg |-> c2,
         saved |-> adopt,
         stats |-> [s \in DOMAIN stats \cup DOMAIN roles |->
                       IF s \in DOMAIN roles THEN TrackerTick(Old(s), by_serial(s), dt)
                       ELSE stats[s]]]

\* round(x, 3) of a length in metres, on lengths counted in 0.1 mm
Round3(v) == ((v + 5) \div 10) * 10

RoundAll(t) == [i \in 1..Len(t) |-> Round3(t[i])]

CoverageKey(pa, sts) ==
    <<[i \in 1..Len(pa.corners_m) |-> RoundAll(pa.corners_m[i])],
      [i \in 1..Len(sts) |->
          <<sts[i].serial, RoundAll(sts[i].position_m),
            [r \in 1..3 |-> RoundAll(sts[i].rotation_3x3[r])]>>]>>

Abs(x) == IF x < 0 THEN -x ELSE x

\* math.ceil(a / b) for a >= 0 and b > 0
CeilDiv(a, b) == (a + b - 1) \div b

SeqMin(t) == CHOOSE x \in {t[i] : i \in 1..Len(t)} : \A i \in 1..Len(t) : x <= t[i]
SeqMax(t) == CHOOSE x \in {t[i] : i \in 1..Len(t)} : \A i \in 1..Len(t) : x >= t[i]

\* ray casting: the edges that a ray from pt towards -x crosses, counted; the
\* comparison x < (x1 - x0) * (y - y0) / (y1 - y0) + x0 is made without dividing
point_in_poly(pt, poly) ==
    LET n == Len(poly)
        Crosses(i) ==
            LET p0 == poly[i]
                p1 == poly[(i % n) + 1]
                lhs == (pt[1] - p0[1]) * (p1[2] - p0[2])
                rhs == (p1[1] - p0[1]) * (pt[2] - p0[2])
            IN  /\ (p0[2] > pt[2]) # (p1[2] > pt[2])
                /\ IF p1[2] > p0[2] THEN lhs < rhs ELSE lhs > rhs
    IN  Cardinality({i \in 1..n : Crosses(i)}) % 2 = 1

\* the direction from the station to the point in the station's frame
\* (forward is -Z), unnormalised: rot_transpose(rot) applied to point - position
LocalDir(station, point) ==
    [j \in 1..3 |->
        ( station.rotation_3x3[1][j] * (point[1] - station.position_m[1])
        + station.rotation_3x3[2][j] * (point[2] - station.position_m[2])
        + station.rotation_3x3[3][j] * (point[3] - station.position_m[3]) ) \div RotOne]

\* margin >= 0: |yaw| <= 60 degrees and |pitch| <= 45 degrees, with
\* yaw = atan2(x, -z) and pitch = atan2(y, -z); tan(60 degrees)^2 = 3.
\* A point with -z <= 0 is behind or beside the station.
station_sees_point(station, point) ==
    LET local == LocalDir(station, point)
        fwd == -local[3]
    IN  /\ fwd > 0
        /\ local[1] * local[1] <= 3 * fwd * fwd
        /\ Abs(local[2]) <= fwd

\* the warning without the two margins that its text ends with
station_to_station_visibility(sts) ==
    IF Len(sts) # 2 THEN None
    ELSE IF /\ station_sees_point(sts[1], sts[2].position_m)
            /\ station_sees_point(sts[2], sts[1].position_m)
         THEN None
         ELSE Some("Heuristic sync check")

\* 100.0 * part / whole, in hundredths of a percent
Percent(part, whole) == IF whole = 0 THEN 0 ELSE (10000 * part) \div whole

\* the grid of compute_coverage: its origin and its numbers of columns and rows
GridOf(corners) ==
    LET xs == [i \in 1..Len(corners) |-> corners[i][1]]
        ys == [i \in 1..Len(corners) |-> corners[i][2]]
    IN  [min_x |-> SeqMin(xs),
         min_y |-> SeqMin(ys),
         w |-> Max(1, CeilDiv(SeqMax(xs) - SeqMin(xs), GridStep) + 1),
         h |-> Max(1, CeilDiv(SeqMax(ys) - SeqMin(ys), GridStep) + 1)]

\* the point of cell k of the grid, rows first, at height z
CellPoint(g, k, z) ==
    <<g.min_x + ((k - 1) % g.w) * GridStep, g.min_y + ((k - 1) \div g.w) * GridStep, z>>

\* a score that counts the stations for every cell of the bounding box
CellScoreEverywhere(corners, sts, pt) ==
    Min(2, Cardinality({i \in 1..Len(sts) : station_sees_point(sts[i], pt)}))

\* the score of a cell point: the stations that see it, at most 2, and 0
\* outside the play area
CellScore(corners, sts, pt) ==
    IF ~point_in_poly(pt, corners) THEN 0
    ELSE Min(2, Cardinality({i \in 1..Len(sts) : station_sees_point(sts[i], pt)}))

\* inside_mask: the cells whose point is inside the play area
InsideMask(g, corners) ==
    [k \in 1..(g.w * g.h) |-> point_in_poly(CellPoint(g, k, 0), corners)]

\* score_foot and score_waist: the scores of the cells at height z
ScoresAt(g, corners, sts, z) ==
    [k \in 1..(g.w * g.h) |-> CellScore(corners, sts, CellPoint(g, k, z))]

Count(list, v) == Cardinality({k \in DOMAIN list : list[k] = v})

\* the CoverageResult; overall_score, a weighted mean of the two score lists,
\* is left out
CoverageResult(g, inside, foot, waist, warning) ==
    [grid_origin_m |-> <<g.min_x, g.min_y>>,
     grid_step_m |-> GridStep,
     grid_w |-> g.w,
     grid_h |-> g.h,
     inside_mask |-> inside,
     score_foot |-> foot,
     score_waist |-> waist,
     overlap_pct_foot |-> Percent(Count(foot, 2), Count(inside, TRUE)),
     overlap_pct_waist |-> Percent(Count(waist, 2), Count(inside, TRUE)),
     station_sync_warning |-> warning]

\* each part is computed once and then put into the result
compute_coverage(pa, sts) ==
    CHOOSE result \in
        UNION {{CoverageResult(g, inside, foot, waist, station_to_station_visibility(sts)) :
                    inside \in {InsideMask(g, pa.corners_m)},
                    foot \in {ScoresAt(g, pa.corners_m, sts, FootZ)},
                    waist \in {ScoresAt(g, pa.corners_m, sts, WaistZ)}} :
               g \in {GridOf(pa.corners_m)}} : TRUE

\* a tick that computes the coverage whatever is cached
AlwaysRecomputeCoverage(pa, sts, key, cov) ==
    IF ~(pa # None /\ Len(sts) = 2)
    THEN [coverage |-> None, coverage_key |-> None]
    ELSE [coverage |-> Some(compute_coverage(pa[1], sts)),
          coverage_key |-> Some(CoverageKey(pa[1], sts))]

\* returns the published coverage and the stored key
_maybe_recompute_coverage(pa, sts, key, cov) ==
    IF ~(pa # None /\ Len(sts) = 2)
    THEN [coverage |-> None, coverage_key |-> None]
    ELSE IF Some(CoverageKey(pa[1], sts)) = key /\ cov # None
         THEN [coverage |-> cov, coverage_key |-> key]
         ELSE [coverage |-> Some(compute_coverage(pa[1], sts)),
               coverage_key |-> Some(CoverageKey(pa[1], sts))]

-----------------------------------------------------------------------------
(* Inputs *)

HmdDev == Dev("HMD", "HMD0", OkPose(<<0, 0, 17000>>))
RefA == Dev("TrackingReference", "LHB-A", OkPose(<<-18000, -18000, 22000>>))
RefB == Dev("TrackingReference", "LHB-B", OkPose(<<18000, 18000, 22000>>))
Trk(serial, pose) == Dev("GenericTracker", serial, pose)

\* everything present and tracking
SceneFull ==
    <<HmdDev, RefA, RefB, Trk("T1", OkPose(<<0, 0, 1500>>)),
      Trk("T2", OkPose(<<3000, 0, 1500>>)), Trk("T3", OkPose(<<0, 0, 10000>>))>>

\* station B unplugged, tracker T1 occluded
SceneDegraded ==
    <<HmdDev, RefA, Trk("T1", BadPose(<<0, 0, 1500>>)),
      Trk("T2", OkPose(<<3000, 0, 1500>>)), Trk("T3", OkPose(<<0, 0, 10000>>))>>

\* every tracker out of range of the stations
SceneOccluded ==
    <<HmdDev, RefA, RefB, Trk("T1", BadPose(<<0, 0, 1500>>)),
      Trk("T2", BadPose(<<3000, 0, 1500>>)), Trk("T3", BadPose(<<0, 0, 10000>>))>>

\* the device enumerations a poll tick can see
Scenes == {SceneFull, SceneDegraded}

\* station A where the row y = 0 of the play area is on the edge of its view at
\* foot height: |0 - (-2.05)| = 2.2 - 0.15
RefAEdge == Dev("TrackingReference", "LHB-A", OkPose(<<-18000, -20500, 22000>>))
\* the same station as its pose is measured 0.4 mm further away: every
\* coordinate rounds to the same millimetre, and the row is out of view
RefANoise == Dev("TrackingReference", "LHB-A", OkPose(<<-18000, -20504, 22000>>))

SceneEdge == [SceneFull EXCEPT ![2] = RefAEdge]
SceneNoise == [SceneFull EXCEPT ![2] = RefANoise]

\* a third base station, listed before the two others
RefC == Dev("TrackingReference", "LHB-C", OkPose(<<0, 18000, 22000>>))

SceneThreeRefs == <<HmdDev, RefC>> \o Tail(SceneFull)

\* station B is replaced by a third one, which the runtime lists first
SceneSwapped == <<HmdDev, RefC, RefA>> \o SubSeq(SceneFull, 4, Len(SceneFull))

\* station A is replaced by a third one, which the runtime lists first
SceneReplacedA == <<HmdDev, RefC, RefB>> \o SubSeq(SceneFull, 4, Len(SceneFull))

\* both stations mounted low, at 1.6 m and at 1.8 m
SceneLow ==
    [SceneFull EXCEPT
        ![2] = Dev("TrackingReference", "LHB-A", OkPose(<<-18000, -18000, 16000>>)),
        ![3] = Dev("TrackingReference", "LHB-B", OkPose(<<18000, 18000, 18000>>))]

\* tracker T1 on a corner of the play area, where station A sees it and
\* station B does not
SceneCorner ==
    [SceneFull EXCEPT ![4] = Trk("T1", OkPose(<<-10000, -10000, 1500>>))]

\* tracker T1 switched off, and tracker T2 occluded
SceneUnpluggedLost ==
    <<HmdDev, RefA, RefB, Trk("T2", BadPose(<<3000, 0, 1500>>)),
      Trk("T3", OkPose(<<0, 0, 10000>>))>>

\* tracker T1 is switched off: the runtime no longer lists it
SceneUnplugged ==
    <<HmdDev, RefA, RefB, Trk("T2", OkPose(<<3000, 0, 1500>>)),
      Trk("T3", OkPose(<<0, 0, 10000>>))>>

SelectedConfig ==
    [trackers |-> [left_foot |-> "T1", right_foot |-> "T2", waist |-> "T3"],
     base_stations |-> [station_a |-> "LHB-A", station_b |-> "LHB-B"]]

\* the config files the engine can be constructed over
InitialConfigFiles == {MissingFile, FileOf(SelectedConfig)}

-----------------------------------------------------------------------------
(* Initial state: StateEngine.__init__ (state_server.py:128-154) *)

\* the engine, its threads and the server, constructed over one of the config
\* files `files`
InitEngine(files) ==
    /\ cfg_file \in files
    /\ cfg = load_config(cfg_file)
    /\ connected = FALSE
    /\ last_error = None
    /\ vr_system = None
    /\ play_area = None
    /\ stations = <<>>
    /\ coverage = None
    /\ coverage_key = None
    /\ tracker_stats = <<>>
    /\ diag_running = FALSE
    /\ diag_progress = [stage |-> "Idle", t_s |-> 0]
    /\ last_metrics = None
    /\ last_session = None
    /\ stop_flag = FALSE
    /\ lock = "free"
    /\ diag_lock = "free"
    /\ vr_inited = FALSE
    /\ session_files = <<>>
    /\ wall_clock = 0
    /\ faults = MaxFaults
    /\ poller_pc = "new"
    /\ next_retry = 0
    /\ now_age = 0
    /\ devices = <<>>
    /\ init_attempted = FALSE
    /\ since_tick = StaleAge
    /\ since_init_fail = Cooldown
    /\ since_poll_fail = Cooldown
    /\ diag_pc = [d \in DiagIds |-> "idle"]
    /\ diag_t = [d \in DiagIds |-> 0]
    /\ diag_dur = [d \in DiagIds |-> 0]
    /\ diag_samples = [d \in DiagIds |-> <<>>]
    /\ diag_exc = [d \in DiagIds |-> None]
    /\ diag_roles = [d \in DiagIds |-> <<>>]
    /\ diag_snap = [d \in DiagIds |-> None]
    /\ diag_session = [d \in DiagIds |-> None]
    /\ stop_pc = "idle"
    /\ joined = {}
    /\ reader_pc = "idle"
    /\ snap = None
    /\ seen = <<>>
    /\ http_serving = TRUE
    /\ shutdown_requested = FALSE
    /\ http_req = None
    /\ http_resp = None
    /\ prior_coverage = None
    /\ reset_coverage = None
    /\ ticked = TRUE
    /\ tick_history = [ok |-> <<>>, edges |-> <<>>, stayed |-> FALSE]

\* no pure function is under call
NoCall == call_args = None /\ call_result = None

InitOver(files) == InitEngine(files) /\ NoCall

Init == InitOver(InitialConfigFiles)

-----------------------------------------------------------------------------
(* The poller thread: StateEngine._run, _try_init, _poll_once *)

\* d units of time pass on the poller's clock
Elapse(d) ==
    /\ next_retry' = Max(0, next_retry - d)
    /\ now_age' = Min(Cooldown, now_age + d)
    /\ since_tick' = Min(StaleAge, since_tick + d)
    /\ since_init_fail' = Min(Cooldown, since_init_fail + d)
    /\ since_poll_fail' = Min(Cooldown, since_poll_fail + d)

\* a step of _try_init past openvr.init(), or of _poll_once and its handler
Ticked == ticked' = TRUE /\ UNCHANGED <<prior_coverage, reset_coverage, tick_history>>

NoTime == UNCHANGED <<next_retry, now_age, since_tick, since_init_fail, since_poll_fail>>

\* a pose-source call may raise: an injected failure, or the runtime was shut down
MayRaise == faults > 0 \/ ~vr_inited
Raised == faults' = IF vr_inited /\ faults > 0 THEN faults - 1 ELSE faults

ErrorText(kind, detail) == Some(<<kind, detail>>)

\* start(): the poller thread begins to run
Start ==
    /\ poller_pc = "new"
    /\ poller_pc' = "loop"
    /\ UNCHANGED <<history_vars, engine_vars, world_vars, next_retry, now_age, since_tick, devices, init_attempted,
                   since_init_fail, since_poll_fail, diag_vars, stop_vars, reader_vars>>

\* the head of the loop of _run: the stop flag, then connected, then the
\* retry test `now >= next_retry` with now read here
PollerLoop ==
    /\ poller_pc = "loop"
    /\ poller_pc' = IF stop_flag THEN "exited"
                    ELSE IF connected THEN "poll_fetch"
                    ELSE IF next_retry = 0 THEN "init"
                    ELSE "retry_sleep"
    /\ now_age' = 0
    /\ UNCHANGED <<history_vars, engine_vars, world_vars, next_retry, devices, init_attempted,
                   since_tick, since_init_fail, since_poll_fail, diag_vars, stop_vars, reader_vars>>

\* _try_init: openvr.init() returns, no lock held
PollerInitOk(lags) ==
    /\ poller_pc = "init"
    /\ \E d \in lags : Elapse(d)
    /\ vr_inited' = TRUE
    /\ poller_pc' = "init_lock"
    /\ Ticked
    /\ UNCHANGED <<engine_vars, cfg_file, session_files, wall_clock, faults, devices, init_attempted,
                   diag_vars, stop_vars, reader_vars>>

\* _try_init: openvr.init() raises
PollerInitRaise(lags) ==
    /\ poller_pc = "init"
    /\ faults > 0
    /\ faults' = faults - 1
    /\ \E d \in lags : Elapse(d)
    /\ poller_pc' = "init_except"
    /\ UNCHANGED <<history_vars, engine_vars, vr_inited, cfg_file, session_files, wall_clock, devices, init_attempted,
                   diag_vars, stop_vars, reader_vars>>

\* _try_init: the state lock is taken; VRSystem(), VRChaperone() and
\* VRChaperoneSetup() are now called with it held
PollerInitLock ==
    /\ poller_pc = "init_lock"
    /\ lock = "free"
    /\ lock' = "poller"
    /\ poller_pc' = "init_handles"
    /\ NoTime
    /\ Ticked
    /\ UNCHANGED <<cfg, connected, last_error, vr_system, play_area, stations, coverage,
                   coverage_key, tracker_stats, diag_running, diag_progress, last_metrics,
                   last_session, stop_flag, diag_lock, world_vars, devices, init_attempted,
                   diag_vars, stop_vars, reader_vars>>

\* the state a successful _try_init publishes
InitPublished == [connected |-> TRUE, last_error |-> None]

\* _try_init: the handles are returned; connected and last_error are set
\* and the lock is released; back in _run, sleep(0.1) is next
PollerInitDone(lags) ==
    /\ poller_pc = "init_handles"
    /\ \E d \in lags : Elapse(d)
    /\ vr_system' = Some("IVRSystem")
    /\ connected' = InitPublished.connected
    /\ last_error' = InitPublished.last_error
    /\ lock' = "free"
    /\ poller_pc' = "retry_sleep"
    /\ init_attempted' = TRUE
    /\ Ticked
    /\ UNCHANGED <<cfg, play_area, stations, coverage, coverage_key, tracker_stats,
                   diag_running, diag_progress, last_metrics, last_session, stop_flag,
                   diag_lock, world_vars, devices, diag_vars, stop_vars, reader_vars>>

\* _try_init: VRSystem() or VRChaperone() raises; the with block releases the lock
PollerInitHandlesRaise(lags) ==
    /\ poller_pc = "init_handles"
    /\ MayRaise
    /\ Raised
    /\ \E d \in lags : Elapse(d)
    /\ lock' = "free"
    /\ poller_pc' = "init_except"
    /\ UNCHANGED <<history_vars, cfg, connected, last_error, vr_system, play_area, stations, coverage,
                   coverage_key, tracker_stats, diag_running, diag_progress, last_metrics,
                   last_session, stop_flag, diag_lock, vr_inited, cfg_file, session_files,
                   wall_clock, devices, init_attempted, diag_vars, stop_vars, reader_vars>>

\* an except handler that records no error text
FailurePublishedSilent(e) == [connected |-> FALSE, last_error |-> None]

\* the state an except handler of the poller publishes for exception e
FailurePublished(e) == [connected |-> FALSE, last_error |-> ErrorText(e, "detail")]

\* _try_init's except handler: connected and last_error under the lock, then
\* openvr.shutdown(); back in _run, next_retry = now + 1.0
PollerInitExcept ==
    /\ poller_pc = "init_except"
    /\ lock = "free"
    /\ connected' = FailurePublished("OpenVRError").connected
    /\ last_error' = FailurePublished("OpenVRError").last_error
    /\ vr_inited' = FALSE
    /\ next_retry' = Cooldown - now_age
    /\ since_init_fail' = now_age
    /\ poller_pc' = "retry_sleep"
    /\ init_attempted' = TRUE
    /\ UNCHANGED <<history_vars, cfg, vr_system, play_area, stations, coverage, coverage_key,
                   tracker_stats, diag_running, diag_progress, last_metrics, last_session,
                   stop_flag, lock, diag_lock, cfg_file, session_files, wall_clock, faults,
                   now_age, since_tick, devices, since_poll_fail, diag_vars, stop_vars, reader_vars>>

\* sleep(0.1); continue
PollerRetrySleep(lags) ==
    /\ poller_pc = "retry_sleep"
    /\ \E d \in lags : Elapse(RetrySleep + d)
    /\ poller_pc' = "loop"
    /\ UNCHANGED <<history_vars, engine_vars, world_vars, devices, init_attempted, diag_vars, stop_vars, reader_vars>>

\* _poll_once: the pose fetch and the device enumeration return, no lock held
PollerFetchOk(scenes, lags) ==
    /\ poller_pc = "poll_fetch"
    /\ \E d \in lags : Elapse(d)
    /\ \E sc \in scenes : devices' = sc
    /\ poller_pc' = "poll_lock"
    /\ Ticked
    /\ UNCHANGED <<init_attempted, engine_vars, world_vars, diag_vars, stop_vars, reader_vars>>

\* _poll_once: GetDeviceToAbsoluteTrackingPose raises
PollerFetchRaise(lags) ==
    /\ poller_pc = "poll_fetch"
    /\ MayRaise
    /\ Raised
    /\ \E d \in lags : Elapse(d)
    /\ poller_pc' = "poll_except"
    /\ Ticked
    /\ UNCHANGED <<engine_vars, vr_inited, cfg_file, session_files, wall_clock, devices, init_attempted,
                   diag_vars, stop_vars, reader_vars>>

\* _poll_once: the state lock is taken and the config is loaded; the play-area
\* query (get_play_area) is now made with the lock held
PollerPollLock ==
    /\ poller_pc = "poll_lock"
    /\ lock = "free"
    /\ lock' = "poller"
    /\ cfg' = load_config(cfg_file)
    /\ poller_pc' = "poll_play_area"
    /\ NoTime
    /\ Ticked
    /\ UNCHANGED <<connected, last_error, vr_system, play_area, stations, coverage,
                   coverage_key, tracker_stats, diag_running, diag_progress, last_metrics,
                   last_session, stop_flag, diag_lock, world_vars, devices, init_attempted,
                   diag_vars, stop_vars, reader_vars>>

\* whether the pose the tick's device list holds for serial s is present, valid
\* and RUNNING_OK
OkOnTick(devs, s) ==
    LET at == {i \in 1..Len(devs) : devs[i].serial = s}
    IN  at # {} /\ PoseIsOk(devs[SetMax(at)].pose)

\* the history after a tick that updated the trackers `selected` from `devs`
TickHistoryAfter(selected, devs) ==
    LET WasOk(s) == s \in DOMAIN tick_history.ok /\ tick_history.ok[s]
        Edges(s) == IF s \in DOMAIN tick_history.edges THEN tick_history.edges[s] ELSE 0
        covered == DOMAIN tick_history.ok \cup selected
    IN  [ok |-> [s \in covered |-> IF s \in selected THEN OkOnTick(devs, s)
                                  ELSE tick_history.ok[s]],
         edges |-> [s \in covered |->
                       IF s \in selected /\ WasOk(s) /\ ~OkOnTick(devs, s)
                       THEN Edges(s) + 1 ELSE Edges(s)],
         stayed |-> \/ tick_history.stayed
                    \/ \E s \in selected :
                          Edges(s) >= 1 /\ ~WasOk(s) /\ ~OkOnTick(devs, s)]

DropoutsCapped(stats) == \A s \in DOMAIN stats : stats[s].dropouts <= MaxDropouts
WindowsCapped(stats) == \A s \in DOMAIN stats : Len(stats[s].window) <= MaxWindow

\* d units of time pass before _update_tracker_stats reads `now`
ElapseTick(d) ==
    /\ next_retry' = Max(0, next_retry - d)
    /\ now_age' = Min(Cooldown, now_age + d)
    /\ since_tick' = 0
    /\ since_init_fail' = Min(Cooldown, since_init_fail + d)
    /\ since_poll_fail' = Min(Cooldown, since_poll_fail + d)

\* _poll_once: the rest of the locked block runs to its end
PollerPollUpdate(areas, lags) ==
    /\ poller_pc = "poll_play_area"
    /\ \E d \in lags, pa \in areas :
        \E sel \in {_select_station_poses(cfg, devices)} :
        \E upd \in {_update_tracker_stats(sel.cfg, tracker_stats, devices,
                                           Min(StaleAge, since_tick + d))} :
        \E cov \in {_maybe_recompute_coverage(Some(pa), sel.stations, coverage_key,
                                               coverage)} :
            /\ ElapseTick(d)
            /\ DropoutsCapped(upd.stats)
            /\ WindowsCapped(upd.stats)
            /\ play_area' = Some(pa)
            /\ stations' = sel.stations
            /\ cfg' = upd.cfg
            /\ cfg_file' = IF upd.saved THEN save_config(upd.cfg)
                           ELSE IF sel.saved THEN save_config(sel.cfg)
                           ELSE cfg_file
            /\ tracker_stats' = upd.stats
            /\ tick_history' = TickHistoryAfter(DOMAIN _tracker_roles_by_serial(upd.cfg), devices)
            /\ coverage' = cov.coverage
            /\ coverage_key' = cov.coverage_key
    /\ lock' = "free"
    /\ devices' = <<>>
    /\ poller_pc' = "tick_sleep"
    /\ prior_coverage' = None
    /\ reset_coverage' = prior_coverage
    /\ ticked' = TRUE
    /\ UNCHANGED <<init_attempted, connected, last_error, vr_system, diag_running, diag_progress,
                   last_metrics, last_session, stop_flag, diag_lock, vr_inited,
                   session_files, wall_clock, faults,
                   diag_vars, stop_vars, reader_vars>>

\* what a failed write_text can leave of a file
AfterFailedWrite(file) == {file, CorruptFile}

\* _poll_once: save_config raises inside _select_station_poses; the play area
\* and the adopted serials are already assigned
PollerStationSaveRaise(areas, lags) ==
    /\ poller_pc = "poll_play_area"
    /\ faults > 0
    /\ faults' = faults - 1
    /\ \E d \in lags : Elapse(d)
    /\ \E pa \in areas :
        \E sel \in {_select_station_poses(cfg, devices)} :
            /\ sel.saved
            /\ play_area' = Some(pa)
            /\ cfg' = sel.cfg
    /\ cfg_file' \in AfterFailedWrite(cfg_file)
    /\ lock' = "free"
    /\ devices' = <<>>
    /\ poller_pc' = "poll_except"
    /\ prior_coverage' = None
    /\ reset_coverage' = prior_coverage
    /\ ticked' = TRUE
    /\ UNCHANGED tick_history
    /\ UNCHANGED <<init_attempted, connected, last_error, vr_system, stations, coverage, coverage_key,
                   tracker_stats, diag_running, diag_progress, last_metrics, last_session,
                   stop_flag, diag_lock, vr_inited, session_files, wall_clock,
                   diag_vars, stop_vars, reader_vars>>

\* _poll_once: save_config raises inside _update_tracker_stats; the play area,
\* the stations and the adopted serials are already assigned
PollerTrackerSaveRaise(areas, lags) ==
    /\ poller_pc = "poll_play_area"
    /\ faults > 0
    /\ faults' = faults - 1
    /\ \E d \in lags : Elapse(d)
    /\ \E pa \in areas :
        \E sel \in {_select_station_poses(cfg, devices)} :
        \E upd \in {_update_tracker_stats(sel.cfg, tracker_stats, devices, 0)} :
            /\ upd.saved
            /\ play_area' = Some(pa)
            /\ stations' = sel.stations
            /\ cfg' = upd.cfg
            /\ cfg_file' \in AfterFailedWrite(IF sel.saved THEN save_config(sel.cfg)
                                              ELSE cfg_file)
    /\ lock' = "free"
    /\ devices' = <<>>
    /\ poller_pc' = "poll_except"
    /\ prior_coverage' = None
    /\ reset_coverage' = prior_coverage
    /\ ticked' = TRUE
    /\ UNCHANGED tick_history
    /\ UNCHANGED <<init_attempted, connected, last_error, vr_system, coverage, coverage_key,
                   tracker_stats, diag_running, diag_progress, last_metrics, last_session,
                   stop_flag, diag_lock, vr_inited, session_files, wall_clock,
                   diag_vars, stop_vars, reader_vars>>

\* an except handler after which the poller thread ends
PollerPollExceptFatal ==
    /\ poller_pc = "poll_except"
    /\ lock = "free"
    /\ connected' = FALSE
    /\ last_error' = ErrorText("PollError", "detail")
    /\ poller_pc' = "exited"
    /\ UNCHANGED <<history_vars, cfg, vr_system, play_area, stations, coverage, coverage_key,
                   tracker_stats, diag_running, diag_progress, last_metrics, last_session,
                   stop_flag, lock, diag_lock, world_vars, next_retry, now_age, since_tick, devices,
                   init_attempted, since_init_fail, since_poll_fail, diag_vars, stop_vars,
                   reader_vars>>

\* the except handler of _run: connected and last_error under the lock, then
\* openvr.shutdown(); next_retry is left as it was
PollerPollExcept ==
    /\ poller_pc = "poll_except"
    /\ lock = "free"
    /\ connected' = FailurePublished("PollError").connected
    /\ last_error' = FailurePublished("PollError").last_error
    /\ vr_inited' = FALSE
    /\ since_poll_fail' = 0
    /\ poller_pc' = "tick_sleep"
    /\ Ticked
    /\ UNCHANGED <<cfg, vr_system, play_area, stations, coverage, coverage_key,
                   tracker_stats, diag_running, diag_progress, last_metrics, last_session,
                   stop_flag, lock, diag_lock, cfg_file, session_files, wall_clock, faults,
                   next_retry, now_age, since_tick, devices, init_attempted, since_init_fail,
                   diag_vars, stop_vars, reader_vars>>

\* sleep(max(0, target_dt - elapsed)) at the end of an iteration
PollerTickSleep(lags) ==
    /\ poller_pc = "tick_sleep"
    /\ \E d \in lags : Elapse(d)
    /\ poller_pc' = "loop"
    /\ UNCHANGED <<history_vars, engine_vars, world_vars, devices, init_attempted, diag_vars, stop_vars, reader_vars>>

\* the poller with a pose source and a config store that never fail
HealthyPoller(scenes, areas, lags) ==
    \/ PollerLoop
    \/ PollerInitOk(lags)
    \/ PollerInitLock
    \/ PollerInitDone(lags)
    \/ PollerRetrySleep(lags)
    \/ PollerFetchOk(scenes, lags)
    \/ PollerPollLock
    \/ PollerPollUpdate(areas, lags)
    \/ PollerTickSleep(lags)

\* the calls of the poller that raise, and its except handlers
PollerFailures(areas, lags) ==
    \/ PollerInitRaise(lags)
    \/ PollerInitHandlesRaise(lags)
    \/ PollerInitExcept
    \/ PollerFetchRaise(lags)
    \/ PollerStationSaveRaise(areas, lags)
    \/ PollerTrackerSaveRaise(areas, lags)
    \/ PollerPollExcept

Poller(scenes, areas, lags) ==
    \/ HealthyPoller(scenes, areas, lags)
    \/ PollerFailures(areas, lags)

-----------------------------------------------------------------------------
(* GET /state: StateEngine.get_state (state_server.py:167-256) *)

\* the snapshot get_state builds from the engine's fields
GetStateView ==
    [connected |-> connected,
     last_error |-> last_error,
     play_area |-> play_area,
     stations |-> [i \in 1..Len(Take(stations, 2)) |->
                      [label |-> IF i = 1 THEN "Station A" ELSE "Station B",
                       serial |-> stations[i].serial,
                       pos_m |-> stations[i].position_m]],
     coverage |-> coverage,
     trackers |-> [s \in DOMAIN _tracker_roles_by_serial(cfg) |->
                      LET st == IF s \in DOMAIN tracker_stats THEN tracker_stats[s]
                                ELSE TrackerLiveStats
                      IN  [role |-> _tracker_roles_by_serial(cfg)[s],
                           connected |-> st.connected,
                           tracking_ok |-> st.tracking_ok,
                           dropouts |-> st.dropouts,
                           jitter_pos_mm |-> st.jitter_pos_mm,
                           pos_m |-> st.last_pos_m]],
     \* generate_recommendations, kept as the inputs it has beside the fields above
     recommendations |-> [last_metrics |-> last_metrics],
     diagnostic |-> [stage |-> diag_progress.stage,
                     t_s |-> diag_progress.t_s,
                     running |-> diag_running,
                     last_session_timestamp |->
                         IF last_session # None THEN Some(last_session[1].timestamp)
                         ELSE None]]

\* a GET /state request arrives (_Handler.do_GET)
HttpGetState ==
    /\ reader_pc = "idle"
    /\ reader_pc' = "waiting"
    /\ UNCHANGED <<history_vars, engine_vars, world_vars, poller_vars, diag_vars, stop_vars, snap, seen,
                   http_vars, call_vars>>

\* get_state runs under the state lock; the client keeps the fields `keep` of
\* the snapshot, and the last dropouts value it was told for each tracker
GetState(keep) ==
    /\ reader_pc = "waiting"
    /\ lock = "free"
    /\ snap' = Some([f \in keep |-> GetStateView[f]])
    /\ seen' = IF "trackers" \in keep
               THEN [s \in DOMAIN seen \cup DOMAIN GetStateView.trackers |->
                        IF s \in DOMAIN GetStateView.trackers
                        THEN GetStateView.trackers[s].dropouts
                        ELSE seen[s]]
               ELSE seen
    /\ reader_pc' = "idle"
    /\ ticked' = FALSE
    /\ UNCHANGED <<prior_coverage, reset_coverage, tick_history>>
    /\ UNCHANGED <<engine_vars, world_vars, poller_vars, diag_vars, stop_vars, http_vars, call_vars>>

-----------------------------------------------------------------------------
(* POST /run_diagnostic: StateEngine.trigger_diagnostic (state_server.py:263-271) *)

\* trigger calls take their ids in order
NextDiagId(d) == diag_pc[d] = "idle" /\ \A e \in DiagIds : e < d => diag_pc[e] # "idle"

\* a trigger that does not test the running flag
TriggerAcceptsAlways(running) == TRUE

\* whether the call that finds the running flag `running` starts a diagnostic
TriggerAccepts(running) == ~running

\* the call takes the diagnostic lock and tests the running flag; when it is
\* clear the flag is set, with the diagnostic lock still held
TriggerEnter(d, durations) ==
    /\ NextDiagId(d)
    /\ diag_lock = "free"
    /\ IF TriggerAccepts(diag_running)
       THEN /\ diag_running' = TRUE
            /\ diag_lock' = "held"
            /\ \E dur \in durations : diag_dur' = [diag_dur EXCEPT ![d] = dur]
            /\ diag_pc' = [diag_pc EXCEPT ![d] = "starting"]
       ELSE /\ diag_pc' = [diag_pc EXCEPT ![d] = "rejected"]
            /\ UNCHANGED <<diag_running, diag_lock, diag_dur>>
    /\ UNCHANGED <<history_vars, cfg, connected, last_error, vr_system, play_area, stations, coverage,
                   coverage_key, tracker_stats, diag_progress, last_metrics, last_session,
                   stop_flag, lock, world_vars, poller_vars, diag_t, diag_samples,
                   diag_exc, diag_roles, diag_snap, diag_session, stop_vars, reader_vars>>

\* the progress is set to "Starting", the diagnostic lock is released, the
\* thread is started and the call returns {ok: true}
TriggerStart(d) ==
    /\ diag_pc[d] = "starting"
    /\ diag_progress' = [stage |-> "Starting", t_s |-> 0]
    /\ diag_lock' = "free"
    /\ diag_pc' = [diag_pc EXCEPT ![d] = "pre"]
    /\ UNCHANGED <<history_vars, cfg, connected, last_error, vr_system, play_area, stations, coverage,
                   coverage_key, tracker_stats, diag_running, last_metrics, last_session,
                   stop_flag, lock, world_vars, poller_vars, diag_t, diag_dur, diag_samples,
                   diag_exc, diag_roles, diag_snap, diag_session, stop_vars, reader_vars>>

-----------------------------------------------------------------------------
(* The diagnostic thread: StateEngine._run_diagnostic (state_server.py:464-571) *)

\* labels whose intervals are closed at their upper end
DiagnosticStageClosed(t) ==
    IF t <= 10 THEN "0-10s: Stand still at center"
    ELSE IF t <= 25 THEN "10-25s: Slow 360 turn"
    ELSE IF t <= 35 THEN "25-35s: Squat + stand"
    ELSE IF t <= 50 THEN "35-50s: Step side-to-side"
    ELSE IF t <= 55 THEN "50-55s: Face Station A"
    ELSE IF t <= 60 THEN "55-60s: Face Station B"
    ELSE "Finishing..."

\* the label of the interval that holds the elapsed time t, in seconds
_diagnostic_stage(t) ==
    IF t < 10 THEN "0-10s: Stand still at center"
    ELSE IF t < 25 THEN "10-25s: Slow 360 turn"
    ELSE IF t < 35 THEN "25-35s: Squat + stand"
    ELSE IF t < 50 THEN "35-50s: Step side-to-side"
    ELSE IF t < 55 THEN "50-55s: Face Station A"
    ELSE IF t < 60 THEN "55-60s: Face Station B"
    ELSE "Finishing..."

\* the preconditions, read without the state lock
DiagPre(d) ==
    /\ diag_pc[d] = "pre"
    /\ LET roles == _tracker_roles_by_serial(cfg)
       IN  /\ diag_roles' = [diag_roles EXCEPT ![d] = roles]
           /\ IF Cardinality(DOMAIN roles) # 3
              THEN /\ diag_exc' = [diag_exc EXCEPT ![d] =
                                      Some(<<"RuntimeError", "Trackers not selected.">>)]
                   /\ diag_pc' = [diag_pc EXCEPT ![d] = "except"]
              ELSE IF ~(play_area # None /\ Len(stations) = 2)
              THEN /\ diag_exc' = [diag_exc EXCEPT ![d] =
                                      Some(<<"RuntimeError", "Stations/play area not ready.">>)]
                   /\ diag_pc' = [diag_pc EXCEPT ![d] = "except"]
              ELSE /\ diag_pc' = [diag_pc EXCEPT ![d] = "loop"]
                   /\ UNCHANGED diag_exc
    /\ UNCHANGED <<history_vars, engine_vars, world_vars, poller_vars, diag_t, diag_dur, diag_samples,
                   diag_snap, diag_session, stop_vars, reader_vars>>

\* the head of the capture loop: the stop flag, then the elapsed time
DiagLoop(d) ==
    /\ diag_pc[d] = "loop"
    /\ diag_pc' = [diag_pc EXCEPT ![d] =
                      IF stop_flag \/ diag_t[d] >= diag_dur[d] THEN "collect"
                      ELSE "progress"]
    /\ UNCHANGED <<history_vars, engine_vars, world_vars, poller_vars, diag_t, diag_dur, diag_samples,
                   diag_exc, diag_roles, diag_snap, diag_session, stop_vars, reader_vars>>

\* the progress is published under the state lock
DiagProgress(d) ==
    /\ diag_pc[d] = "progress"
    /\ lock = "free"
    /\ diag_progress' = [stage |-> _diagnostic_stage(diag_t[d]), t_s |-> diag_t[d]]
    /\ diag_pc' = [diag_pc EXCEPT ![d] = "capture"]
    /\ UNCHANGED <<history_vars, cfg, connected, last_error, vr_system, play_area, stations, coverage,
                   coverage_key, tracker_stats, diag_running, last_metrics, last_session,
                   stop_flag, lock, diag_lock, world_vars, poller_vars, diag_t, diag_dur,
                   diag_samples, diag_exc, diag_roles, diag_snap, diag_session,
                   stop_vars, reader_vars>>

\* the sample of the selected trackers taken from one device enumeration
SampleOf(t, roles, devs) ==
    LET HasSerial(dv) == dv.serial # NoSerial /\ dv.pose # None
        named == SelectSeq(devs, HasSerial)
        IsHmd(dv) == dv.cls = "HMD" /\ dv.pose # None /\ dv.pose[1].pose_valid
        hmds == SelectSeq(devs, IsHmd)
    IN  [t_s |-> t,
         hmd_yaw_deg |-> IF hmds = <<>> THEN None ELSE Some(0),
         trackers |-> [s \in DOMAIN roles |->
                          IF LastIndexOf(named, s) = 0
                          THEN [ok |-> FALSE, pos |-> None]
                          ELSE [ok |-> PoseIsOk(named[LastIndexOf(named, s)].pose),
                                pos |-> Some(named[LastIndexOf(named, s)].pose[1].position_m)]]]

\* a capture after which the clock reads what it read before
DiagCaptureOkClockStands(d, scenes, lags) ==
    /\ diag_pc[d] = "capture"
    /\ Len(diag_samples[d]) < MaxDuration
    /\ \E sc \in scenes :
           diag_samples' = [diag_samples EXCEPT ![d] =
                               Append(@, SampleOf(diag_t[d], diag_roles[d], sc))]
    /\ \E l \in lags : diag_t' = [diag_t EXCEPT ![d] = Min(MaxDuration, @ + l)]
    /\ diag_pc' = [diag_pc EXCEPT ![d] = "loop"]
    /\ UNCHANGED <<history_vars, engine_vars, world_vars, poller_vars, diag_dur, diag_exc, diag_roles,
                   diag_snap, diag_session, stop_vars, reader_vars>>

\* one capture: the pose-source calls return, the sample is appended, sleep(dt)
DiagCaptureOk(d, scenes, lags) ==
    /\ diag_pc[d] = "capture"
    /\ \E sc \in scenes :
           diag_samples' = [diag_samples EXCEPT ![d] =
                               Append(@, SampleOf(diag_t[d], diag_roles[d], sc))]
    /\ \E l \in lags : diag_t' = [diag_t EXCEPT ![d] = Min(MaxDuration, @ + 1 + l)]
    /\ diag_pc' = [diag_pc EXCEPT ![d] = "loop"]
    /\ UNCHANGED <<history_vars, engine_vars, world_vars, poller_vars, diag_dur, diag_exc, diag_roles,
                   diag_snap, diag_session, stop_vars, reader_vars>>

\* one capture after which `step` seconds have passed on the clock: the
\* pose-source calls and sleep(dt) take as long as the machine lets them
DiagCaptureCoarse(d, scenes, steps) ==
    /\ diag_pc[d] = "capture"
    /\ \E sc \in scenes :
           diag_samples' = [diag_samples EXCEPT ![d] =
                               Append(@, SampleOf(diag_t[d], diag_roles[d], sc))]
    /\ \E step \in steps : diag_t' = [diag_t EXCEPT ![d] = Min(StageHorizon, @ + step)]
    /\ diag_pc' = [diag_pc EXCEPT ![d] = "loop"]
    /\ UNCHANGED <<history_vars, engine_vars, world_vars, poller_vars, diag_dur, diag_exc, diag_roles,
                   diag_snap, diag_session, stop_vars, reader_vars>>

\* one capture: GetDeviceToAbsoluteTrackingPose raises
DiagCaptureRaise(d) ==
    /\ diag_pc[d] = "capture"
    /\ MayRaise
    /\ Raised
    /\ diag_exc' = [diag_exc EXCEPT ![d] = Some(<<"OpenVRError", "detail">>)]
    /\ diag_pc' = [diag_pc EXCEPT ![d] = "except"]
    /\ UNCHANGED <<history_vars, engine_vars, vr_inited, cfg_file, session_files, wall_clock,
                   poller_vars, diag_t, diag_dur, diag_samples, diag_roles, diag_snap,
                   diag_session, stop_vars, reader_vars>>

\* after the loop: play area, stations and coverage are read under the state lock
DiagCollect(d) ==
    /\ diag_pc[d] = "collect"
    /\ lock = "free"
    /\ diag_snap' = [diag_snap EXCEPT ![d] =
                        Some([pa |-> play_area, stations |-> stations, cov |-> coverage])]
    /\ diag_pc' = [diag_pc EXCEPT ![d] = "save"]
    /\ UNCHANGED <<history_vars, engine_vars, world_vars, poller_vars, diag_t, diag_dur, diag_samples,
                   diag_exc, diag_roles, diag_session, stop_vars, reader_vars>>

\* the session artifact composed at state_server.py:548-558
SessionOf(d) ==
    [timestamp |-> wall_clock,
     duration_s |-> diag_dur[d],
     tracker_roles_by_serial |-> diag_roles[d],
     stations |-> diag_snap[d][1].stations,
     play_area |-> diag_snap[d][1].pa,
     coverage_summary |-> diag_snap[d][1].cov,
     samples |-> diag_samples[d]]

\* an inference that names, of two stations, the one that sees the point
InferSeeingStation(sts, point) ==
    IF Len(sts) = 2
    THEN LET visible0 == station_sees_point(sts[1], point)
             visible1 == station_sees_point(sts[2], point)
         IN  IF visible0 /\ ~visible1 THEN Some(sts[1].serial)
             ELSE IF visible1 /\ ~visible0 THEN Some(sts[2].serial)
             ELSE None
    ELSE None

\* _infer_likely_station (metrics.py:67-83): of two stations of which one sees
\* the point and the other does not, the serial of the one that does not
_infer_likely_station(sts, point) ==
    IF Len(sts) = 2
    THEN LET s0 == sts[1].serial
             s1 == sts[2].serial
             visible0 == station_sees_point(sts[1], point)
             visible1 == station_sees_point(sts[2], point)
         IN  IF visible0 /\ ~visible1 THEN Some(s1)
             ELSE IF visible1 /\ ~visible0 THEN Some(s0)
             ELSE None
    ELSE None

\* the loop variables of analyze_diagnostic_session for one tracker
ScanStart ==
    [ok_prev |-> FALSE, dropout_start |-> None, dropout_yaw |-> None,
     dropout_pose |-> None, dropouts |-> <<>>, yaw_bins |-> <<>>]

\* _yaw_bin_label (metrics.py:60-64): the 10 degree bin of a yaw, "start-end"
\* kept as <<start, end>>
_yaw_bin_label(yaw_deg) == <<((yaw_deg % 360) \div 10) * 10, ((yaw_deg % 360) \div 10) * 10 + 10>>

\* yaw_bins[lab] = yaw_bins.get(lab, 0) + 1, on a dict kept in insertion order
CountBin(bins, lab) ==
    IF \E i \in 1..Len(bins) : bins[i].lab = lab
    THEN [i \in 1..Len(bins) |-> IF bins[i].lab = lab THEN [bins[i] EXCEPT !.c = @ + 1]
                                  ELSE bins[i]]
    ELSE Append(bins, [lab |-> lab, c |-> 1])

\* the entry of the tracker in a sample, None if the sample has none
TrackerEntry(sample, serial) ==
    IF serial \in DOMAIN sample.trackers THEN Some(sample.trackers[serial]) ELSE None

\* the pose the loop builds from an entry: an entry without "pos" is at the origin
EntryPose(tr) ==
    IF tr = None THEN None
    ELSE IF tr[1].pos = None THEN Some(<<0, 0, 0>>)
    ELSE tr[1].pos

\* a duration counted from the start of the capture
DropoutDurationFromZero(start, end) == Max(0, end)

\* the duration of a dropout that is closed at `end`
DropoutDuration(start, end) == Max(0, end - start)

\* the DropoutEvent that closes the open dropout of `st` at time `end`; of
\* station_margins_deg the keys are kept, in the order of their insertion
DropoutEvent(st, end, sts) ==
    [start_s |-> st.dropout_start[1],
     end_s |-> end,
     duration_s |-> DropoutDuration(st.dropout_start[1], end),
     hmd_yaw_deg |-> st.dropout_yaw,
     likely_station_serial |->
         IF st.dropout_pose # None /\ sts # <<>>
         THEN _infer_likely_station(sts, st.dropout_pose[1])
         ELSE None,
     station_margins_deg |->
         IF st.dropout_pose # None /\ sts # <<>>
         THEN [i \in 1..Len(sts) |-> sts[i].serial]
         ELSE <<>>]

\* a detector that takes every not-ok sample as the start of a dropout
OpensDropoutOnEveryLoss(ok_prev, ok) == ~ok

\* whether a sample opens a dropout
OpensDropout(ok_prev, ok) == ok_prev /\ ~ok

\* one iteration of the sample loop (metrics.py:125-190), the jitter window aside
ScanStep(st, sample, serial, sts) ==
    LET tr == TrackerEntry(sample, serial)
        ok == tr # None /\ tr[1].ok
    IN  IF OpensDropout(st.ok_prev, ok)
        THEN [st EXCEPT !.dropout_start = Some(sample.t_s),
                        !.dropout_yaw = sample.hmd_yaw_deg,
                        !.yaw_bins = IF sample.hmd_yaw_deg # None
                                     THEN CountBin(@, _yaw_bin_label(sample.hmd_yaw_deg[1]))
                                     ELSE @,
                        !.dropout_pose = EntryPose(tr),
                        !.ok_prev = ok]
        ELSE IF ~st.ok_prev /\ ok /\ st.dropout_start # None
        THEN [st EXCEPT !.dropouts = Append(@, DropoutEvent(st, sample.t_s, sts)),
                        !.dropout_start = None,
                        !.dropout_yaw = None,
                        !.dropout_pose = None,
                        !.ok_prev = ok]
        ELSE [st EXCEPT !.ok_prev = ok]

\* the loop variables after the first i samples
RECURSIVE Scan(_, _, _, _)
Scan(samples, i, serial, sts) ==
    IF i = 0 THEN ScanStart
    ELSE ScanStep(Scan(samples, i - 1, serial, sts), samples[i], serial, sts)

\* the dropouts the loop has closed, without the one still open at the end
ClosedDropouts(samples, serial, sts) == Scan(samples, Len(samples), serial, sts).dropouts

\* the dropouts of one tracker: a dropout open after the last sample is closed
\* at the last timestamp (metrics.py:193-210)
Dropouts(samples, serial, sts) ==
    CHOOSE out \in
        {IF st.dropout_start # None /\ samples # <<>>
         THEN Append(st.dropouts, DropoutEvent(st, samples[Len(samples)].t_s, sts))
         ELSE st.dropouts :
            st \in {Scan(samples, Len(samples), serial, sts)}} : TRUE

\* sum(d.duration_s for d in dropouts)
RECURSIVE SumDurations(_)
SumDurations(dropouts) ==
    IF dropouts = <<>> THEN 0
    ELSE dropouts[1].duration_s + SumDurations(Tail(dropouts))

\* the dropout fields of TrackerMetrics (metrics.py:212-225)
TrackerMetrics(serial, role, dropouts, yaw_bins) ==
    [serial |-> serial,
     role |-> role,
     dropout_count |-> Len(dropouts),
     dropout_duration_s |-> SumDurations(dropouts),
     dropout_yaw_bins |-> yaw_bins,
     dropouts |-> dropouts]

\* analyze_diagnostic_session (metrics.py:86-228): the metrics of each tracker
\* of the roles map, by serial
analyze_diagnostic_session(samples, roles, sts) ==
    [s \in DOMAIN roles |->
        CHOOSE m \in {TrackerMetrics(s, roles[s], d,
                                     Scan(samples, Len(samples), s, sts).yaw_bins) :
                          d \in {Dropouts(samples, s, sts)}} : TRUE]

\* save_session (storage.py:78-83): the file named by the timestamp is written
save_session(files, session) ==
    [ts \in DOMAIN files \cup {session.timestamp} |->
        IF ts = session.timestamp THEN session ELSE files[ts]]

\* the artifact is composed, analysed and written
DiagSaveOk(d) ==
    /\ diag_pc[d] = "save"
    /\ session_files' = save_session(session_files, SessionOf(d))
    /\ diag_session' = [diag_session EXCEPT ![d] =
           Some([session |-> SessionOf(d),
                 metrics |-> analyze_diagnostic_session(diag_samples[d], diag_roles[d], diag_snap[d][1].stations)])]
    /\ diag_pc' = [diag_pc EXCEPT ![d] = "publish"]
    /\ UNCHANGED <<history_vars, engine_vars, vr_inited, cfg_file, wall_clock, faults, poller_vars,
                   diag_t, diag_dur, diag_samples, diag_exc, diag_roles, diag_snap,
                   stop_vars, reader_vars>>

\* save_session raises after the artifact was already published
DiagSaveRaisePublished(d) ==
    /\ diag_pc[d] = "save"
    /\ faults > 0
    /\ faults' = faults - 1
    /\ last_session' = Some(SessionOf(d))
    /\ last_metrics' = Some(analyze_diagnostic_session(diag_samples[d], diag_roles[d], diag_snap[d][1].stations))
    /\ diag_exc' = [diag_exc EXCEPT ![d] = Some(<<"OSError", "detail">>)]
    /\ diag_pc' = [diag_pc EXCEPT ![d] = "except"]
    /\ UNCHANGED <<history_vars, cfg, connected, last_error, vr_system, play_area, stations, coverage,
                   coverage_key, tracker_stats, diag_running, diag_progress, stop_flag,
                   lock, diag_lock, vr_inited, cfg_file, session_files, wall_clock,
                   poller_vars, diag_t, diag_dur, diag_samples, diag_roles, diag_snap,
                   diag_session, stop_vars, reader_vars>>

\* save_session raises
DiagSaveRaise(d) ==
    /\ diag_pc[d] = "save"
    /\ faults > 0
    /\ faults' = faults - 1
    /\ diag_exc' = [diag_exc EXCEPT ![d] = Some(<<"OSError", "detail">>)]
    /\ diag_pc' = [diag_pc EXCEPT ![d] = "except"]
    /\ UNCHANGED <<history_vars, engine_vars, vr_inited, cfg_file, session_files, wall_clock,
                   poller_vars, diag_t, diag_dur, diag_samples, diag_roles, diag_snap,
                   diag_session, stop_vars, reader_vars>>

\* the artifact and its metrics are published under the state lock
DiagPublish(d) ==
    /\ diag_pc[d] = "publish"
    /\ lock = "free"
    /\ last_session' = Some(diag_session[d][1].session)
    /\ last_metrics' = Some(diag_session[d][1].metrics)
    /\ diag_pc' = [diag_pc EXCEPT ![d] = "finally"]
    /\ UNCHANGED <<history_vars, cfg, connected, last_error, vr_system, play_area, stations, coverage,
                   coverage_key, tracker_stats, diag_running, diag_progress, stop_flag,
                   lock, diag_lock, world_vars, poller_vars, diag_t, diag_dur,
                   diag_samples, diag_exc, diag_roles, diag_snap, diag_session,
                   stop_vars, reader_vars>>

\* the except handler: last_error under the state lock
DiagExcept(d) ==
    /\ diag_pc[d] = "except"
    /\ lock = "free"
    /\ last_error' = Some(<<"Diagnostic", diag_exc[d][1]>>)
    /\ diag_pc' = [diag_pc EXCEPT ![d] = "finally"]
    /\ UNCHANGED <<history_vars, cfg, connected, vr_system, play_area, stations, coverage,
                   coverage_key, tracker_stats, diag_running, diag_progress, last_metrics,
                   last_session, stop_flag, lock, diag_lock, world_vars, poller_vars,
                   diag_t, diag_dur, diag_samples, diag_exc, diag_roles, diag_snap,
                   diag_session, stop_vars, reader_vars>>

\* a finally block that leaves the running flag as it is
DiagFinallyKeepsFlag(d) ==
    /\ diag_pc[d] = "finally"
    /\ lock = "free"
    /\ lock' = "diag"
    /\ diag_pc' = [diag_pc EXCEPT ![d] = "finally_progress"]
    /\ UNCHANGED <<history_vars, cfg, connected, last_error, vr_system, play_area, stations, coverage,
                   coverage_key, tracker_stats, diag_running, diag_progress, last_metrics,
                   last_session, stop_flag, diag_lock, world_vars, poller_vars, diag_t,
                   diag_dur, diag_samples, diag_exc, diag_roles, diag_snap, diag_session,
                   stop_vars, reader_vars>>

\* the finally block: the state lock is taken and the running flag is cleared
DiagFinally(d) ==
    /\ diag_pc[d] = "finally"
    /\ lock = "free"
    /\ lock' = "diag"
    /\ diag_running' = FALSE
    /\ diag_pc' = [diag_pc EXCEPT ![d] = "finally_progress"]
    /\ UNCHANGED <<history_vars, cfg, connected, last_error, vr_system, play_area, stations, coverage,
                   coverage_key, tracker_stats, diag_progress, last_metrics, last_session,
                   stop_flag, diag_lock, world_vars, poller_vars, diag_t, diag_dur,
                   diag_samples, diag_exc, diag_roles, diag_snap, diag_session,
                   stop_vars, reader_vars>>

\* the finally block: the progress is reset, the lock released, the thread ends
\* and its locals are gone
DiagFinallyProgress(d) ==
    /\ diag_pc[d] = "finally_progress"
    /\ diag_progress' = [stage |-> "Idle", t_s |-> 0]
    /\ lock' = "free"
    /\ diag_pc' = [diag_pc EXCEPT ![d] = "done"]
    /\ diag_t' = [diag_t EXCEPT ![d] = 0]
    /\ diag_dur' = [diag_dur EXCEPT ![d] = 0]
    /\ diag_samples' = [diag_samples EXCEPT ![d] = <<>>]
    /\ diag_exc' = [diag_exc EXCEPT ![d] = None]
    /\ diag_roles' = [diag_roles EXCEPT ![d] = <<>>]
    /\ diag_snap' = [diag_snap EXCEPT ![d] = None]
    /\ diag_session' = [diag_session EXCEPT ![d] = None]
    /\ UNCHANGED <<history_vars, cfg, connected, last_error, vr_system, play_area, stations, coverage,
                   coverage_key, tracker_stats, diag_running, last_metrics, last_session,
                   stop_flag, diag_lock, world_vars, poller_vars, stop_vars, reader_vars>>

Diagnostic(d, durations, scenes, lags) ==
    \/ TriggerEnter(d, durations)
    \/ TriggerStart(d)
    \/ DiagPre(d)
    \/ DiagLoop(d)
    \/ DiagProgress(d)
    \/ DiagCaptureOk(d, scenes, lags)
    \/ DiagCaptureRaise(d)
    \/ DiagCollect(d)
    \/ DiagSaveOk(d)
    \/ DiagSaveRaise(d)
    \/ DiagPublish(d)
    \/ DiagExcept(d)
    \/ DiagFinally(d)
    \/ DiagFinallyProgress(d)

\* a second of wall-clock time passes
WallTick ==
    /\ wall_clock < MaxWall
    /\ wall_clock' = wall_clock + 1
    /\ UNCHANGED <<history_vars, engine_vars, vr_inited, cfg_file, session_files, faults, poller_vars,
                   diag_vars, stop_vars, reader_vars>>

-----------------------------------------------------------------------------
(* StateEngine.stop (state_server.py:159-165) *)

\* the pose-source calls of the poller, which can outlast the join timeout
PollerInCall == poller_pc \in {"init", "init_handles", "poll_fetch", "poll_play_area"}

\* self._stop.set()
StopSet ==
    /\ stop_pc = "idle"
    /\ poller_pc # "new"
    /\ stop_flag' = TRUE
    /\ stop_pc' = "join"
    /\ UNCHANGED <<history_vars, cfg, connected, last_error, vr_system, play_area, stations, coverage,
                   coverage_key, tracker_stats, diag_running, diag_progress, last_metrics,
                   last_session, lock, diag_lock, world_vars, poller_vars, diag_vars,
                   joined, reader_vars>>

\* the threads stop() waits for
StopJoins == {"poller"}

\* self._thread.join(timeout=2.0) returns: the poller has ended, or the
\* timeout has expired with the poller inside a pose-source call
StopJoin ==
    /\ stop_pc = "join"
    /\ poller_pc = "exited" \/ PollerInCall
    /\ joined' = StopJoins
    /\ stop_pc' = "shutdown"
    /\ UNCHANGED <<history_vars, engine_vars, world_vars, poller_vars, diag_vars, reader_vars>>

\* openvr.shutdown()
StopShutdown ==
    /\ stop_pc = "shutdown"
    /\ vr_inited' = FALSE
    /\ stop_pc' = "done"
    /\ UNCHANGED <<history_vars, engine_vars, cfg_file, session_files, wall_clock, faults, poller_vars,
                   diag_vars, joined, reader_vars>>

Stop ==
    \/ StopSet
    \/ StopJoin
    \/ StopShutdown

-----------------------------------------------------------------------------
(* Another process saves the config (ui_main.py, setup_wizard.py) *)

ExternalSaveConfig(configs) ==
    /\ \E c \in configs : cfg_file' = save_config(c)
    /\ cfg_file' # cfg_file
    /\ UNCHANGED <<history_vars, engine_vars, vr_inited, session_files, wall_clock, faults, poller_vars,
                   diag_vars, stop_vars, reader_vars>>

\* the same save as the file system sees it: write_text opens and truncates
\* the file,
ExternalSaveBegin(configs) ==
    /\ cfg_file.kind # "partial"
    /\ \E c \in configs : cfg_file' = PartialFile(cfg_file, c)
    /\ UNCHANGED <<history_vars, engine_vars, vr_inited, session_files, wall_clock, faults,
                   poller_vars, diag_vars, stop_vars, reader_vars>>

\* and later has written the last byte
ExternalSaveEnd ==
    /\ cfg_file.kind = "partial"
    /\ cfg_file' = save_config(cfg_file.data)
    /\ UNCHANGED <<history_vars, engine_vars, vr_inited, session_files, wall_clock, faults,
                   poller_vars, diag_vars, stop_vars, reader_vars>>

-----------------------------------------------------------------------------
(* POST /recompute: StateEngine.force_recompute (state_server.py:258-261) *)

\* a reset that leaves the cache as it is
ForceRecomputeKeepsCache ==
    /\ lock = "free"
    /\ prior_coverage' = IF coverage # None THEN coverage ELSE prior_coverage
    /\ UNCHANGED <<reset_coverage, ticked, tick_history>>
    /\ UNCHANGED <<engine_vars, world_vars, poller_vars, diag_vars, stop_vars, reader_vars>>

ForceRecompute ==
    /\ lock = "free"
    /\ coverage_key' = None
    /\ coverage' = None
    /\ prior_coverage' = IF coverage # None THEN coverage ELSE prior_coverage
    /\ UNCHANGED <<reset_coverage, ticked, tick_history>>
    /\ UNCHANGED <<cfg, connected, last_error, vr_system, play_area, stations,
                   tracker_stats, diag_running, diag_progress, last_metrics, last_session,
                   stop_flag, lock, diag_lock, world_vars, poller_vars, diag_vars,
                   stop_vars, reader_vars>>

-----------------------------------------------------------------------------
(* The HTTP server: _Handler, StateHTTPServer, serve_state (state_server.py:572-618) *)

\* request paths, one character per element
PathState == <<"/", "s", "t", "a", "t", "e">>
PathRunDiagnostic == <<"/", "r", "u", "n", "_", "d", "i", "a", "g", "n", "o", "s", "t", "i", "c">>
PathRecompute == <<"/", "r", "e", "c", "o", "m", "p", "u", "t", "e">>
PathShutdown == <<"/", "s", "h", "u", "t", "d", "o", "w", "n">>
PathOther == <<"/", "o", "t", "h", "e", "r">>

\* str.startswith
StartsWith(s, prefix) == Len(s) >= Len(prefix) /\ SubSeq(s, 1, Len(prefix)) = prefix

Request(method, path) == [method |-> method, path |-> path]

\* the requests of the documented interface
KnownRequests ==
    {Request("GET", PathState), Request("POST", PathRunDiagnostic),
     Request("POST", PathRecompute), Request("POST", PathShutdown)}

\* the requests a client sends: the documented ones, paths that go on after a
\* documented one, a path no handler knows, and documented paths under the
\* other method
HttpRequests ==
    KnownRequests \cup
    {Request("GET", PathState \o <<"x">>), Request("POST", PathRecompute \o <<"x">>),
     Request("POST", PathShutdown \o <<"x">>), Request("GET", PathOther),
     Request("POST", PathOther), Request("POST", PathState), Request("GET", PathRecompute)}

\* the branch of do_GET / do_POST a request takes
Route(req) ==
    IF req.method = "GET"
    THEN IF StartsWith(req.path, PathState) THEN "state" ELSE "not_found"
    ELSE IF StartsWith(req.path, PathRunDiagnostic) THEN "run_diagnostic"
    ELSE IF StartsWith(req.path, PathRecompute) THEN "recompute"
    ELSE IF StartsWith(req.path, PathShutdown) THEN "shutdown"
    ELSE "not_found"

\* _write_json(code, obj)
Response(code, body) == Some([code |-> code, body |-> body])

OkBody == [ok |-> TRUE]
NotFoundBody == [error |-> "not found"]
AlreadyRunningBody == [ok |-> FALSE, error |-> "Diagnostic already running"]

\* serve_forever takes a request; its handler runs on a thread of its own
HttpRequest(requests) ==
    /\ http_serving
    /\ http_req = None
    /\ \E req \in requests : http_req' = Some(req)
    /\ http_resp' = None
    /\ UNCHANGED <<history_vars, engine_vars, world_vars, poller_vars, diag_vars, stop_vars,
                   call_vars, reader_pc, snap, seen, http_serving, shutdown_requested>>

\* do_GET, /state: get_state() under the state lock
HttpServeState ==
    /\ http_req # None
    /\ Route(http_req[1]) = "state"
    /\ lock = "free"
    /\ http_resp' = Response(200, GetStateView)
    /\ http_req' = None
    /\ UNCHANGED <<history_vars, engine_vars, world_vars, poller_vars, diag_vars, stop_vars,
                   call_vars, reader_pc, snap, seen, http_serving, shutdown_requested>>

\* do_POST, /run_diagnostic: trigger_diagnostic() with its default duration
HttpServeRunDiagnostic(durations) ==
    /\ http_req # None
    /\ Route(http_req[1]) = "run_diagnostic"
    /\ diag_lock = "free"
    /\ IF TriggerAccepts(diag_running)
       THEN /\ \E d \in DiagIds, dur \in durations :
                /\ NextDiagId(d)
                /\ diag_dur' = [diag_dur EXCEPT ![d] = dur]
                /\ diag_pc' = [diag_pc EXCEPT ![d] = "pre"]
            /\ diag_running' = TRUE
            /\ diag_progress' = [stage |-> "Starting", t_s |-> 0]
            /\ http_resp' = Response(200, OkBody)
       ELSE /\ http_resp' = Response(200, AlreadyRunningBody)
            /\ UNCHANGED <<diag_running, diag_progress, diag_dur, diag_pc>>
    /\ http_req' = None
    /\ UNCHANGED <<history_vars, cfg, connected, last_error, vr_system, play_area, stations, coverage,
                   coverage_key, tracker_stats, last_metrics, last_session,
                   stop_flag, lock, diag_lock, world_vars, poller_vars, diag_t, diag_samples,
                   diag_exc, diag_roles, diag_snap, diag_session, stop_vars,
                   call_vars, reader_pc, snap, seen, http_serving, shutdown_requested>>

\* do_POST, /recompute: force_recompute() under the state lock
HttpServeRecompute ==
    /\ http_req # None
    /\ Route(http_req[1]) = "recompute"
    /\ lock = "free"
    /\ coverage_key' = None
    /\ coverage' = None
    /\ prior_coverage' = IF coverage # None THEN coverage ELSE prior_coverage
    /\ http_resp' = Response(200, OkBody)
    /\ http_req' = None
    /\ UNCHANGED <<reset_coverage, ticked, tick_history>>
    /\ UNCHANGED <<cfg, connected, last_error, vr_system, play_area, stations,
                   tracker_stats, diag_running, diag_progress, last_metrics, last_session,
                   stop_flag, lock, diag_lock, world_vars, poller_vars, diag_vars,
                   stop_vars, call_vars, reader_pc, snap, seen, http_serving, shutdown_requested>>

\* do_POST, /shutdown: the answer is written, then the event is set
HttpServeShutdown ==
    /\ http_req # None
    /\ Route(http_req[1]) = "shutdown"
    /\ http_resp' = Response(200, OkBody)
    /\ shutdown_requested' = TRUE
    /\ http_req' = None
    /\ UNCHANGED <<history_vars, engine_vars, world_vars, poller_vars, diag_vars, stop_vars,
                   call_vars, reader_pc, snap, seen, http_serving>>

\* the last line of do_GET and of do_POST
HttpServeNotFound ==
    /\ http_req # None
    /\ Route(http_req[1]) = "not_found"
    /\ http_resp' = Response(404, NotFoundBody)
    /\ http_req' = None
    /\ UNCHANGED <<history_vars, engine_vars, world_vars, poller_vars, diag_vars, stop_vars,
                   call_vars, reader_pc, snap, seen, http_serving, shutdown_requested>>

\* the process that owns the server calls http_server.shutdown()
\* (launcher.py:221): serve_forever returns
HttpServerShutdown ==
    /\ http_serving
    /\ http_serving' = FALSE
    /\ UNCHANGED <<history_vars, engine_vars, world_vars, poller_vars, diag_vars, stop_vars,
                   call_vars, reader_pc, snap, seen, shutdown_requested, http_req, http_resp>>

-----------------------------------------------------------------------------
(* Recommendations: generate_recommendations (recommendations.py:30-153) *)

\* targets, one character per element
StationATarget == <<"S", "t", "a", "t", "i", "o", "n", " ", "A">>
StationBTarget == <<"S", "t", "a", "t", "i", "o", "n", " ", "B">>
GeneralTarget == <<"G", "e", "n", "e", "r", "a", "l">>

\* _station_labels_by_serial (state_server.py:273-280): station_b is entered last
_station_labels_by_serial(c) ==
    LET a == c.base_stations.station_a
        b == c.base_stations.station_b
    IN  [serial \in {a, b} \ {NoSerial} |->
            IF serial = b THEN StationBTarget ELSE StationATarget]

\* A text is kept as the character codes of its first letters and of the
\* first number formatted into it; texts compare as Python strings do.
RECURSIVE Digits(_)
Digits(n) == IF n < 10 THEN <<48 + n>> ELSE Digits(n \div 10) \o <<48 + (n % 10)>>

\* "{x:+.0f}" of a whole number
Signed(n) == <<IF n < 0 THEN 45 ELSE 43>> \o Digits(Abs(n))

\* "{x:.1f}" of a number given in thousandths of the unit of its last digit
OneDecimal(tenths) == Digits(tenths \div 10) \o <<46>> \o Digits(tenths % 10)

\* a < b for two texts
TextLess(a, b) ==
    \E k \in 1..(Len(b)) :
        /\ k <= Len(a) + 1
        /\ \A i \in 1..(k - 1) : a[i] = b[i]
        /\ (k = Len(a) + 1 \/ a[k] < b[k])

Recommendation(target, text, confidence) ==
    [target |-> target, text |-> text, confidence |-> confidence]

\* "Foot-height 2-station overlap is low ({overlap_pct_foot:.1f}%). ..."
FootText(pct) == <<70, 111, 111, 116>> \o OneDecimal((pct + 5) \div 10)
\* "Heuristic sync check: ..."
SyncText == <<72, 101, 117, 114>>
\* "Dropouts cluster at HMD yaw bin {worst_yaw_bin} ..."
ClusterText(lab) == <<68, 114, 111, 112>> \o Digits(lab[1]) \o <<45>> \o Digits(lab[2])
\* "Yaw {yaw_err:+.0f} ..."
YawText(yaw_err) == <<89, 97, 119, 32>> \o Signed(yaw_err)
\* "Raise mount +{(2.2 - z):.1f}m ..."
RaiseText(z) == <<82, 97, 105, 115>> \o OneDecimal((22000 - z + 500) \div 1000)
\* "Tilt {direction} ~{abs(pitch_err):.0f} ..."
TiltText(pitch_err) ==
    <<84, 105, 108, 116, 32, IF pitch_err < 0 THEN 100 ELSE 117>> \o Digits(Abs(pitch_err))
\* "Diagnostics: {c} dropouts were ..."
CulpritText(c) == <<68, 105, 97, 103>> \o Digits(c)
\* "No strong issues detected ..."
NoIssueText == <<78, 111, 32, 115>>

\* the low-foot-overlap hint (recommendations.py:43-54); percentages count in
\* hundredths of a percent
LowFootOverlap(cov) ==
    IF cov # None /\ cov[1].overlap_pct_foot < 5500
    THEN <<Recommendation(GeneralTarget, FootText(cov[1].overlap_pct_foot),
                          IF cov[1].overlap_pct_foot > 3500 THEN "Med" ELSE "High")>>
    ELSE <<>>

\* the sync hint (recommendations.py:55-56)
SyncWarning(cov) ==
    IF cov # None /\ cov[1].station_sync_warning # None
    THEN <<Recommendation(GeneralTarget, cov[1].station_sync_warning[1], "Med")>>
    ELSE <<>>

\* metrics.per_tracker: the trackers in the order of their serials
SerialOrder == <<"T1", "T2", "T3">>
PerTracker(metrics) ==
    LET Has(serial) == serial \in DOMAIN metrics
        order == SelectSeq(SerialOrder, Has)
    IN  [i \in 1..Len(order) |-> metrics[order[i]]]

\* the number of dropouts of all trackers whose likely station is `serial`
RECURSIVE LikelyCount(_, _)
LikelyCount(trackers, serial) ==
    IF trackers = <<>> THEN 0
    ELSE Len(SelectSeq(trackers[1].dropouts,
                       LAMBDA d : d.likely_station_serial = Some(serial)))
         + LikelyCount(Tail(trackers), serial)

\* every yaw bin of every tracker, in the order the loops visit them
RECURSIVE AllBins(_)
AllBins(trackers) ==
    IF trackers = <<>> THEN <<>>
    ELSE trackers[1].dropout_yaw_bins \o AllBins(Tail(trackers))

\* the first bin with the largest count: `if c > worst_yaw_bin_count`
WorstBin(bins) ==
    bins[SetMin({i \in 1..Len(bins) : \A j \in 1..Len(bins) : bins[j].c <= bins[i].c})]

\* the yaw-cluster hint (recommendations.py:62-81)
YawCluster(metrics) ==
    IF metrics # None /\ AllBins(PerTracker(metrics[1])) # <<>>
                      /\ WorstBin(AllBins(PerTracker(metrics[1]))).c >= 3
    THEN <<Recommendation(GeneralTarget,
                          ClusterText(WorstBin(AllBins(PerTracker(metrics[1]))).lab), "Med")>>
    ELSE <<>>

\* the hints for station idx (recommendations.py:84-134).  aim holds what the
\* trigonometry of lines 86-89 and 110-114 yields for the station: yaw_err and
\* pitch_err in whole degrees, and near = (horiz < 1.0)
StationHints(idx, station, aim, metrics, labels) ==
    LET label == IF station.serial \in DOMAIN labels THEN labels[station.serial]
                 ELSE IF idx = 1 THEN StationATarget ELSE StationBTarget
        z == station.position_m[3]
        c == IF metrics = None THEN 0 ELSE LikelyCount(PerTracker(metrics[1]), station.serial)
    IN  (IF Abs(aim.yaw_err) >= 6
         THEN <<Recommendation(label, YawText(aim.yaw_err), "Med")>> ELSE <<>>)
        \o
        (IF z < 20000
         THEN <<Recommendation(label, RaiseText(z), IF z < 17000 THEN "High" ELSE "Med")>>
         ELSE <<>>)
        \o
        (IF Abs(aim.pitch_err) >= 6
         THEN <<Recommendation(label, TiltText(aim.pitch_err),
                               IF aim.near THEN "Low" ELSE "Med")>>
         ELSE <<>>)
        \o
        (IF c >= 3
         THEN <<Recommendation(label, CulpritText(c), IF c >= 6 THEN "High" ELSE "Med")>>
         ELSE <<>>)

\* a key that leaves the target out
SortKeyTextOnly(r) == <<2, r.text>>

\* _sort_key (recommendations.py:146-151)
_sort_key(r) ==
    IF StartsWith(r.target, StationATarget) THEN <<0, r.text>>
    ELSE IF StartsWith(r.target, StationBTarget) THEN <<1, r.text>>
    ELSE <<2, r.text>>

\* k1 < k2 for two keys (int, str)
KeyLess(k1, k2) == k1[1] < k2[1] \/ (k1[1] = k2[1] /\ TextLess(k1[2], k2[2]))

\* out with r put in before the first item of a greater key
InsertByKey(out, r) ==
    LET later == {i \in 1..Len(out) : KeyLess(_sort_key(r), _sort_key(out[i]))}
        at == IF later = {} THEN Len(out) + 1 ELSE SetMin(later)
    IN  SubSeq(out, 1, at - 1) \o <<r>> \o SubSeq(out, at, Len(out))

\* sorted(recs, key=_sort_key): a stable sort
RECURSIVE SortedByKey(_)
SortedByKey(recs) ==
    IF recs = <<>> THEN <<>>
    ELSE InsertByKey(SortedByKey(SubSeq(recs, 1, Len(recs) - 1)), recs[Len(recs)])

\* the items in the order the rules append them
UnsortedRecommendations(aims, sts, cov, metrics, labels) ==
    LET first == LowFootOverlap(cov) \o SyncWarning(cov) \o YawCluster(metrics)
        one == IF Len(sts) >= 1 THEN StationHints(1, sts[1], aims[1], metrics, labels)
               ELSE <<>>
        two == IF Len(sts) >= 2 THEN StationHints(2, sts[2], aims[2], metrics, labels)
               ELSE <<>>
        recs == first \o one \o two
    IN  IF recs = <<>> THEN <<Recommendation(GeneralTarget, NoIssueText, "Low")>> ELSE recs

generate_recommendations(aims, sts, cov, metrics, labels) ==
    SortedByKey(UnsortedRecommendations(aims, sts, cov, metrics, labels))

-----------------------------------------------------------------------------
(* Historical heatmap: LogDataProvider.compute_heatmap (log_data.py:79-164) *)

\* int(a / b) for b > 0: the quotient cut towards zero
TruncDiv(a, b) == IF a >= 0 THEN a \div b ELSE -((-a) \div b)

\* round(n / d) for n >= 0 and d > 0: to the nearest integer, a half to the
\* even one
RoundHalfEven(n, d) ==
    LET q == n \div d
        r == n % d
    IN  IF 2 * r < d THEN q
        ELSE IF 2 * r > d THEN q + 1
        ELSE IF q % 2 = 0 THEN q ELSE q + 1

\* _point_in_poly of log_data.py: the crossing of an edge is
\* (x1 - x0) * (y - y0) / max(1e-9, y1 - y0) + x0.  On an edge that does not
\* rise the divisor is 1e-9, and the crossing is then x0 or, for the
\* coordinates of a room, beyond every x on the side of the sign of
\* (x1 - x0) * (y - y0)
_point_in_poly(pt, poly) ==
    LET n == Len(poly)
        Crosses(i) ==
            LET p0 == poly[i]
                p1 == poly[(i % n) + 1]
                num == (p1[1] - p0[1]) * (pt[2] - p0[2])
            IN  /\ (p0[2] > pt[2]) # (p1[2] > pt[2])
                /\ IF p1[2] > p0[2]
                   THEN (pt[1] - p0[1]) * (p1[2] - p0[2]) < num
                   ELSE IF num = 0 THEN pt[1] < p0[1]
                   ELSE num > 0
    IN  Cardinality({i \in 1..n : Crosses(i)}) % 2 = 1

\* the grid of the heatmap: origin, size, and the centre of cell idx (0-based,
\* row-major)
HeatGrid(corners, step) ==
    LET xs == [i \in 1..Len(corners) |-> corners[i][1]]
        ys == [i \in 1..Len(corners) |-> corners[i][2]]
    IN  [min_x |-> SeqMin(xs), min_y |-> SeqMin(ys),
         w |-> Max(1, TruncDiv(SeqMax(xs) - SeqMin(xs), step) + 1),
         h |-> Max(1, TruncDiv(SeqMax(ys) - SeqMin(ys), step) + 1)]

HeatCentre(g, step, idx) ==
    <<g.min_x + (2 * (idx % g.w) + 1) * (step \div 2),
      g.min_y + (2 * (idx \div g.w) + 1) * (step \div 2)>>

\* the points of the session files that parse: one per tracker entry with a
\* position, as <<file, sample, serial>>
HeatPoints(files) ==
    {pt \in UNION {UNION {{<<f, k, sr>> : sr \in DOMAIN files[f][1].samples[k].trackers} :
                             k \in 1..Len(files[f][1].samples)} :
                      f \in {f \in 1..Len(files) : files[f] # None}} :
        files[pt[1]][1].samples[pt[2]].trackers[pt[3]].pos # None}

\* the cell a point is counted in: xi = int((x - min_x) / step_m), the same
\* for yi, and no cell when either is off the grid
HeatCell(g, step, pos) ==
    LET xi == TruncDiv(pos[1] - g.min_x, step)
        yi == TruncDiv(pos[2] - g.min_y, step)
    IN  IF 0 <= xi /\ xi < g.w /\ 0 <= yi /\ yi < g.h THEN Some(yi * g.w + xi) ELSE None

\* the score of an inside cell with n_ok OK and n_bad not-OK points
HeatScore(n_ok, n_bad) ==
    IF n_ok + n_bad <= 0 THEN 50 ELSE RoundHalfEven(100 * n_ok, n_ok + n_bad)

\* compute_heatmap: None without session files; score is kept 1-based
compute_heatmap(pa, files, step) ==
    IF files = <<>> THEN None
    ELSE LET g == HeatGrid(pa.corners_m, step)
             Inside(idx) == _point_in_poly(HeatCentre(g, step, idx), pa.corners_m)
             Entry(pt) == files[pt[1]][1].samples[pt[2]].trackers[pt[3]]
             In(idx) == {pt \in HeatPoints(files) :
                            HeatCell(g, step, Entry(pt).pos[1]) = Some(idx)}
         IN  Some([origin_m |-> <<g.min_x, g.min_y>>,
                   step_m |-> step,
                   w |-> g.w,
                   h |-> g.h,
                   score |-> [k \in 1..(g.w * g.h) |->
                                 IF ~Inside(k - 1) THEN -1
                                 ELSE HeatScore(
                                          Cardinality({pt \in In(k - 1) : Entry(pt).ok}),
                                          Cardinality({pt \in In(k - 1) : ~Entry(pt).ok}))],
                   source |-> "historical_logs"])

-----------------------------------------------------------------------------
(* Specifications *)

\* every call and every sleep of the poller takes a second longer than it must
SlowLags == {Cooldown}

\* the request handler's diagnostic: trigger_diagnostic() with its default duration
DefaultDurations == {MaxDuration}

\* The engine with its poller, its diagnostics and stop().
Next ==
    \/ Start
    \/ Poller({SceneFull}, {ChaperonePlayArea}, SlowLags)
    \/ \E d \in DiagIds : Diagnostic(d, DefaultDurations, {SceneFull}, {0})
    \/ Stop

Spec == Init /\ [][Next]_vars

\* The steps of diagnostic thread d once its trigger call was accepted
DiagThread(d) ==
    \/ TriggerStart(d)
    \/ DiagPre(d)
    \/ DiagLoop(d)
    \/ DiagProgress(d)
    \/ DiagCaptureOk(d, {SceneFull}, {0})
    \/ DiagCollect(d)
    \/ DiagSaveOk(d)
    \/ DiagPublish(d)
    \/ DiagExcept(d)
    \/ DiagFinally(d)
    \/ DiagFinallyProgress(d)

\* The poller alone, with its timing, and stop().  The trackers stay out of
\* range, so the jitter windows stay empty however fast the ticks follow.
NextPoller ==
    \/ Start
    \/ Poller({SceneOccluded}, {ChaperonePlayArea}, 0..MaxLag)
    \/ Stop

SpecPoller == Init /\ [][NextPoller]_vars

LiveSpecPoller ==
    /\ SpecPoller
    /\ WF_vars(Poller({SceneOccluded}, {ChaperonePlayArea}, 0..MaxLag))

\* The diagnostics beside a poller whose own calls do not fail, and stop().
NextDiag ==
    \/ Start
    \/ HealthyPoller({SceneFull}, {ChaperonePlayArea}, SlowLags)
    \/ \E d \in DiagIds : Diagnostic(d, DefaultDurations, {SceneFull}, {0})
    \/ Stop

SpecDiag == Init /\ [][NextDiag]_vars

\* Every thread that can run does run, every call returns or raises, and a
\* thread waiting for the state lock gets it when it is released again and again.
LiveSpecDiag ==
    /\ SpecDiag
    /\ WF_vars(HealthyPoller({SceneFull}, {ChaperonePlayArea}, SlowLags))
    /\ \A d \in DiagIds : SF_vars(DiagThread(d))

\* a config that gives the left foot to a tracker that is not in the room
OtherConfig ==
    [trackers |-> [left_foot |-> "T9", right_foot |-> "T2", waist |-> "T3"],
     base_stations |-> [station_a |-> "LHB-A", station_b |-> "LHB-B"]]

\* the configs the setup wizard saves while the engine runs
ConfigEdits == {SelectedConfig, OtherConfig}

\* The poller over a changing room and a changing config, with a client that
\* polls GET /state and keeps the trackers of each snapshot.
NextStats ==
    \/ Start
    \/ Poller(Scenes, {ChaperonePlayArea}, SlowLags)
    \/ HttpGetState
    \/ GetState({"trackers"})
    \/ ExternalSaveConfig(ConfigEdits)

SpecStats == Init /\ [][NextStats]_vars

\* the engine started on a config file that names the three trackers
InitSelected == InitOver({FileOf(SelectedConfig)})

\* ticks that follow each other at once, or a second apart
TickLags == {0, Cooldown}

\* The poller over trackers that come, lose tracking and go, with a client
\* that polls GET /state.
NextTrackers ==
    \/ Start
    \/ HealthyPoller({SceneFull, SceneDegraded, SceneUnplugged}, {ChaperonePlayArea}, TickLags)
    \/ HttpGetState
    \/ GetState({"trackers"})

SpecTrackers == InitSelected /\ [][NextTrackers]_vars

\* The poller over station poses that move and that are measured with noise,
\* with POST /recompute.
NextCoverage ==
    \/ Start
    \/ HealthyPoller({SceneFull, SceneEdge, SceneNoise, SceneDegraded}, {ChaperonePlayArea},
                     SlowLags)
    \/ ForceRecompute

SpecCoverage == InitSelected /\ [][NextCoverage]_vars

\* The poller beside another process that saves the config.
NextConfigRace ==
    \/ Start
    \/ HealthyPoller({SceneFull}, {ChaperonePlayArea}, SlowLags)
    \/ ExternalSaveBegin(ConfigEdits)
    \/ ExternalSaveEnd

SpecConfigRace == InitSelected /\ [][NextConfigRace]_vars

\* The engine started on a config file that does not parse; nothing but the
\* engine touches the file.
NextCorrupt ==
    \/ Start
    \/ Poller({SceneFull, SceneDegraded}, {ChaperonePlayArea}, SlowLags)

SpecCorrupt == InitOver({CorruptFile}) /\ [][NextCorrupt]_vars

\* trigger_diagnostic(duration_s) with durations of a few sample periods
ShortDurations == 1..MaxDuration

\* The engine with diagnostics short enough to finish within one second of the
\* wall clock.
NextSessions ==
    \/ Start
    \/ HealthyPoller({SceneFull}, {ChaperonePlayArea}, SlowLags)
    \/ \E d \in DiagIds : Diagnostic(d, ShortDurations, {SceneFull}, {0})
    \/ WallTick

SpecSessions == InitSelected /\ [][NextSessions]_vars

\* The poller in rooms with one, two and three base stations.
NextStations ==
    \/ Start
    \/ HealthyPoller({SceneFull, SceneThreeRefs, SceneDegraded}, {ChaperonePlayArea}, SlowLags)

SpecStations == Init /\ [][NextStations]_vars

\* a config in which only station_a is set, to the station the runtime lists second
HalfConfig ==
    [trackers |-> [left_foot |-> "T1", right_foot |-> "T2", waist |-> "T3"],
     base_stations |-> [station_a |-> "LHB-B", station_b |-> NoSerial]]

\* The poller over configs that name one or both stations, in rooms where the
\* stations present are not the configured ones.
NextPreferred ==
    \/ Start
    \/ Poller({SceneFull, SceneThreeRefs, SceneSwapped}, {ChaperonePlayArea}, SlowLags)

SpecPreferred ==
    /\ InitOver({FileOf(SelectedConfig), FileOf(HalfConfig)})
    /\ [][NextPreferred]_vars

\* a config in which only the left foot was chosen: the tracker listed third
PartRolesConfig ==
    [trackers |-> [left_foot |-> "T3", right_foot |-> NoSerial, waist |-> NoSerial],
     base_stations |-> [station_a |-> "LHB-A", station_b |-> "LHB-B"]]

\* The poller over configs that name no, one or all tracker roles.
NextRoles ==
    \/ Start
    \/ Poller({SceneFull, SceneUnplugged}, {ChaperonePlayArea}, SlowLags)

SpecRoles ==
    /\ InitOver({MissingFile, FileOf(PartRolesConfig), FileOf(SelectedConfig)})
    /\ [][NextRoles]_vars

\* the handler of the request in hand
HttpHandler ==
    \/ HttpServeState
    \/ HttpServeRunDiagnostic(DefaultDurations)
    \/ HttpServeRecompute
    \/ HttpServeShutdown
    \/ HttpServeNotFound

\* The HTTP server beside the poller and the process that owns the server.
NextHttp ==
    \/ Start
    \/ HealthyPoller({SceneFull}, {ChaperonePlayArea}, SlowLags)
    \/ HttpRequest(HttpRequests)
    \/ HttpHandler
    \/ HttpServerShutdown

SpecHttp == InitSelected /\ [][NextHttp]_vars

\* the poller and the handlers run on; nothing makes the owner stop the server
LiveSpecHttp ==
    /\ SpecHttp
    /\ WF_vars(HealthyPoller({SceneFull}, {ChaperonePlayArea}, SlowLags))
    /\ WF_vars(HttpHandler)

\* how long one pass of the capture loop takes in the stage runs
StageSteps == {5, 30}

\* A diagnostic of 65 s whose loop passes take 5 or 30 s each, started once the
\* poller has found the room, then a second one.
NextStages ==
    \/ Start
    \/ HealthyPoller({SceneFull}, {ChaperonePlayArea}, SlowLags)
    \/ \E d \in DiagIds :
          \/ TriggerEnter(d, {StageHorizon})
          \/ TriggerStart(d)
          \/ DiagPre(d)
          \/ DiagLoop(d)
          \/ DiagProgress(d)
          \/ DiagCaptureCoarse(d, {SceneFull}, StageSteps)
          \/ DiagCollect(d)
          \/ DiagSaveOk(d)
          \/ DiagPublish(d)
          \/ DiagExcept(d)
          \/ DiagFinally(d)
          \/ DiagFinallyProgress(d)

SpecStages == InitSelected /\ [][NextStages]_vars

\* the timestamps a capture can take, and how many samples a call is given
SampleTimes == {0, 10, 20, 25, 30}
MaxSamples == 3

\* what a capture can find of tracker T1: tracking, not tracking, no pose, not listed
MetricScenes == {SceneFull, SceneDegraded, SceneOccluded, SceneUnplugged}

\* the timestamps of a capture: perf_counter readings, each later than the one before
TimeSeqs ==
    {ts \in UNION {[1..n -> SampleTimes] : n \in 0..MaxSamples} :
        \A i \in 1..(Len(ts) - 1) : ts[i] < ts[i + 1]}

SelectedRoles == _tracker_roles_by_serial(SelectedConfig)

\* the sample lists of captures of the selected trackers
SampleSeqs ==
    UNION {{[i \in 1..Len(ts) |-> SampleOf(ts[i], SelectedRoles, scs[i])] :
                scs \in [1..Len(ts) -> MetricScenes]} : ts \in TimeSeqs}

\* the stations of a diagnostic run, and those of a stored session without any
StationLists == {_select_station_poses(SelectedConfig, SceneFull).stations, <<>>}

\* the arguments of the calls of analyze_diagnostic_session
MetricCalls ==
    {[fn |-> "analyze_diagnostic_session", samples |-> samples, roles |-> SelectedRoles,
      stations |-> sts] : samples \in SampleSeqs, sts \in StationLists}

InitMetrics ==
    /\ InitEngine({FileOf(SelectedConfig)})
    /\ call_args \in {Some(c) : c \in MetricCalls}
    /\ call_result = None

\* the call returns
AnalyzeSession ==
    /\ call_args # None
    /\ call_args[1].fn = "analyze_diagnostic_session"
    /\ call_result = None
    /\ call_result' = Some(analyze_diagnostic_session(call_args[1].samples, call_args[1].roles,
                                                      call_args[1].stations))
    /\ UNCHANGED <<history_vars, engine_vars, world_vars, poller_vars, diag_vars, stop_vars,
                   reader_pc, snap, seen, http_vars, call_args>>

\* captures in which tracker T1 stands on a corner of the play area, loses
\* tracking there, or is switched off
OccluderScenes == {SceneFull, SceneCorner, SceneUnplugged, SceneUnpluggedLost}

OccluderCalls ==
    {[fn |-> "analyze_diagnostic_session",
      samples |-> [i \in 1..Len(ts) |-> SampleOf(ts[i], SelectedRoles, scs[i])],
      roles |-> SelectedRoles,
      stations |-> _select_station_poses(SelectedConfig, SceneFull).stations] :
        ts \in {t \in TimeSeqs : Len(t) = MaxSamples},
        scs \in [1..MaxSamples -> OccluderScenes]}

InitOccluder ==
    /\ InitEngine({FileOf(SelectedConfig)})
    /\ call_args \in {Some(c) : c \in OccluderCalls}
    /\ call_result = None

\* analyze_diagnostic_session over captures of a tracker that is switched off
SpecOccluder == InitOccluder /\ [][AnalyzeSession]_vars

\* analyze_diagnostic_session over the captures of the selected trackers
SpecMetrics == InitMetrics /\ [][AnalyzeSession]_vars

\* positions of a tracker at the start of a dropout: in and around the play
\* area, at foot and at waist height
DropoutPoints ==
    {<<x, y, z>> : x \in {-25000, -10000, 0, 10000, 25000},
                   y \in {-25000, -10000, 0, 10000, 25000},
                   z \in {FootZ, WaistZ}}

\* the station lists the engine selects: two stations, and one when the other
\* is unplugged
InferStationLists ==
    {_select_station_poses(SelectedConfig, sc).stations :
        sc \in {SceneFull, SceneEdge, SceneSwapped, SceneDegraded}}

\* the arguments of the calls of _infer_likely_station
InferCalls ==
    {[fn |-> "_infer_likely_station", stations |-> sts, point |-> p] :
        sts \in InferStationLists, p \in DropoutPoints}

InitInfer ==
    /\ InitEngine({FileOf(SelectedConfig)})
    /\ call_args \in {Some(c) : c \in InferCalls}
    /\ call_result = None

\* the call returns
InferLikelyStation ==
    /\ call_args # None
    /\ call_args[1].fn = "_infer_likely_station"
    /\ call_result = None
    /\ call_result' = Some(_infer_likely_station(call_args[1].stations, call_args[1].point))
    /\ UNCHANGED <<history_vars, engine_vars, world_vars, poller_vars, diag_vars, stop_vars,
                   reader_pc, snap, seen, http_vars, call_args>>

\* _infer_likely_station over the selected stations and the dropout positions
SpecInfer == InitInfer /\ [][InferLikelyStation]_vars

\* what the aiming trigonometry can yield for a station: on target; off to
\* one side and too high, close to the centre; off to the other side and too low
Aims ==
    {[yaw_err |-> 0, pitch_err |-> 0, near |-> FALSE],
     [yaw_err |-> 12, pitch_err |-> -8, near |-> TRUE],
     [yaw_err |-> -7, pitch_err |-> 9, near |-> FALSE]}

\* foot overlaps around the two thresholds, in hundredths of a percent
FootOverlaps == {0, 3499, 3500, 3501, 5499, 5500, 10000}

\* the coverage as generate_recommendations reads it
Coverages ==
    {None} \cup
    {Some([overlap_pct_foot |-> pct, station_sync_warning |-> w]) :
        pct \in FootOverlaps, w \in {None, Some(SyncText)}}

\* the metrics of a session in which tracker T1 had n dropouts, all at HMD
\* yaw 0 and all with `serial` as the likely station
MetricsWith(n, serial) ==
    [s \in {"T1"} |->
        TrackerMetrics("T1", "Left Foot",
                       [i \in 1..n |-> [start_s |-> 10 * i, end_s |-> 10 * i + 5,
                                        duration_s |-> 5, hmd_yaw_deg |-> Some(0),
                                        likely_station_serial |-> Some(serial)]],
                       IF n = 0 THEN <<>> ELSE <<[lab |-> _yaw_bin_label(0), c |-> n]>>)]

SessionMetricsSet ==
    {None, Some(MetricsWith(0, "LHB-A")), Some(MetricsWith(3, "LHB-A")),
     Some(MetricsWith(6, "LHB-B"))}

\* the stations and the labels of an engine with config c that sees scene sc
SelectedOver(c, sc) ==
    [stations |-> _select_station_poses(c, sc).stations,
     labels |-> _station_labels_by_serial(_select_station_poses(c, sc).cfg)]

\* the arguments of the calls of generate_recommendations; the engine holds a
\* coverage only while it has two stations
RecommendationCalls ==
    {call \in
        {[fn |-> "generate_recommendations", aims |-> aims, stations |-> sel.stations,
          coverage |-> cov, metrics |-> m, labels |-> sel.labels] :
            aims \in [1..2 -> Aims],
            sel \in {SelectedOver(c, sc) :
                        c \in {SelectedConfig, HalfConfig, DefaultConfig},
                        sc \in {SceneFull, SceneLow, SceneSwapped, SceneReplacedA,
                                SceneThreeRefs, SceneDegraded}},
            cov \in Coverages,
            m \in SessionMetricsSet} :
        call.coverage # None => Len(call.stations) = 2}

InitRecommendations ==
    /\ InitEngine({FileOf(SelectedConfig)})
    /\ call_args \in {Some(c) : c \in RecommendationCalls}
    /\ call_result = None

\* the call returns
GenerateRecommendations ==
    /\ call_args # None
    /\ call_args[1].fn = "generate_recommendations"
    /\ call_result = None
    /\ call_result' = Some(generate_recommendations(call_args[1].aims, call_args[1].stations,
                                                    call_args[1].coverage, call_args[1].metrics,
                                                    call_args[1].labels))
    /\ UNCHANGED <<history_vars, engine_vars, world_vars, poller_vars, diag_vars, stop_vars,
                   reader_pc, snap, seen, http_vars, call_args>>

\* generate_recommendations over what the engine passes it
SpecRecommendations == InitRecommendations /\ [][GenerateRecommendations]_vars

\* a quad the chaperone reports: a play area with the corners `corners`
Quad(corners) == [corners_m |-> corners, source |-> "chaperone", warning |-> None]

\* the play areas compute_coverage is given: the default square, and quads of
\* the chaperone: small and wide rectangles, one listed clockwise, one whose
\* sides are no multiple of the grid step, one standing on a corner, one
\* without extent
CoverageAreas ==
    {DefaultPlayArea, ChaperonePlayArea,
     Quad(<<<<-1000, -1000>>, <<-1000, 1000>>, <<1000, 1000>>, <<1000, -1000>>>>),
     Quad(<<<<-2000, -1000>>, <<2000, -1000>>, <<2000, 0>>, <<-2000, 0>>>>),
     Quad(<<<<-1500, -1500>>, <<1500, -1500>>, <<1500, 1500>>, <<-1500, 1500>>>>),
     Quad(<<<<0, -2000>>, <<2000, 0>>, <<0, 2000>>, <<-2000, 0>>>>),
     Quad(<<<<0, 0>>, <<0, 0>>, <<0, 0>>, <<0, 0>>>>)}

\* the station lists the engine selects in the rooms of the model
CoverageStationLists ==
    {_select_station_poses(c, sc).stations :
        c \in {SelectedConfig, DefaultConfig},
        sc \in {SceneFull, SceneEdge, SceneNoise, SceneLow, SceneSwapped, SceneReplacedA,
                SceneDegraded}}

\* the arguments of the calls of compute_coverage
CoverageCalls ==
    {[fn |-> "compute_coverage", play_area |-> pa, stations |-> sts] :
        pa \in CoverageAreas, sts \in CoverageStationLists}

InitGrid ==
    /\ InitEngine({FileOf(SelectedConfig)})
    /\ call_args \in {Some(c) : c \in CoverageCalls}
    /\ call_result = None

\* the call returns
ComputeCoverage ==
    /\ call_args # None
    /\ call_args[1].fn = "compute_coverage"
    /\ call_result = None
    /\ call_result' = Some(compute_coverage(call_args[1].play_area, call_args[1].stations))
    /\ UNCHANGED <<history_vars, engine_vars, world_vars, poller_vars, diag_vars, stop_vars,
                   reader_pc, snap, seen, http_vars, call_args>>

\* compute_coverage over play areas and station lists
SpecGrid == InitGrid /\ [][ComputeCoverage]_vars

\* positions of a tracker in stored samples: 10 cm outside the default square,
\* in its first cell, and at its centre
HeatPositions == {<<-11000, -9000, 1500>>, <<-9000, -9000, 1500>>, <<0, 0, 1500>>}

\* the entries of tracker T1 in stored samples; the last is the bare entry of a
\* tracker without a pose
HeatEntries ==
    {[ok |-> ok, pos |-> Some(pos)] : ok \in BOOLEAN, pos \in HeatPositions}
        \cup {[ok |-> FALSE, pos |-> None]}

HeatSamples ==
    {[t_s |-> 0, hmd_yaw_deg |-> None, trackers |-> [sr \in {"T1"} |-> e]] : e \in HeatEntries}

\* what json.loads makes of a session file: None when it raises
HeatFiles ==
    {None} \cup {Some([samples |-> ss]) :
                    ss \in UNION {[1..n -> HeatSamples] : n \in 0..2}}

\* the play areas of the heatmap: the default square, the chaperone's quad, and
\* a quad that stands on a corner
HeatAreas ==
    {DefaultPlayArea, ChaperonePlayArea,
     Quad(<<<<0, -10000>>, <<10000, 0>>, <<0, 10000>>, <<-10000, 0>>>>)}

HeatCalls ==
    {[fn |-> "compute_heatmap", play_area |-> pa, files |-> fs] :
        pa \in HeatAreas, fs \in UNION {[1..n -> HeatFiles] : n \in 0..2}}

InitHeat ==
    /\ InitEngine({FileOf(SelectedConfig)})
    /\ call_args \in {Some(c) : c \in HeatCalls}
    /\ call_result = None

\* the call returns
ComputeHeatmap ==
    /\ call_args # None
    /\ call_args[1].fn = "compute_heatmap"
    /\ call_result = None
    /\ call_result' = Some(compute_heatmap(call_args[1].play_area, call_args[1].files, HeatStep))
    /\ UNCHANGED <<history_vars, engine_vars, world_vars, poller_vars, diag_vars, stop_vars,
                   reader_pc, snap, seen, http_vars, call_args>>

\* compute_heatmap over stored sessions, some of which do not parse
SpecHeat == InitHeat /\ [][ComputeHeatmap]_vars

\* The poller over a config store whose writes can fail, in rooms where a
\* station and a tracker come and go, with POST /recompute and a client that
\* polls GET /state.
NextPartial ==
    \/ Start
    \/ Poller({SceneUnplugged, SceneDegraded, SceneFull}, {ChaperonePlayArea}, SlowLags)
    \/ ForceRecompute
    \/ HttpGetState
    \/ GetState({"play_area", "stations", "coverage"})

SpecPartial == InitOver({MissingFile}) /\ [][NextPartial]_vars

\* The diagnostics beside the poller and stop(), with a disk that takes every
\* write and a pose source that fails only once it has been shut down.
NextInterrupt ==
    \/ Start
    \/ HealthyPoller({SceneFull}, {ChaperonePlayArea}, SlowLags)
    \/ \E d \in DiagIds :
          \/ TriggerEnter(d, ShortDurations)
          \/ TriggerStart(d)
          \/ DiagPre(d)
          \/ DiagLoop(d)
          \/ DiagProgress(d)
          \/ DiagCaptureOk(d, {SceneFull}, {0})
          \/ (~vr_inited /\ DiagCaptureRaise(d))
          \/ DiagCollect(d)
          \/ DiagSaveOk(d)
          \/ DiagPublish(d)
          \/ DiagExcept(d)
          \/ DiagFinally(d)
          \/ DiagFinallyProgress(d)
    \/ Stop

SpecInterrupt == InitSelected /\ [][NextInterrupt]_vars

\* the fields of a snapshot
SnapshotFields ==
    {"connected", "last_error", "play_area", "stations", "coverage", "trackers",
     "recommendations", "diagnostic"}

\* The engine with a client that polls GET /state and keeps each snapshot,
\* beside diagnostics, POST /recompute and init attempts that fail.
NextSnapshot ==
    \/ Start
    \/ HealthyPoller({SceneFull}, {ChaperonePlayArea}, SlowLags)
    \/ PollerInitRaise(SlowLags)
    \/ PollerInitExcept
    \/ \E d \in DiagIds : Diagnostic(d, DefaultDurations, {SceneFull}, {0})
    \/ ForceRecompute
    \/ HttpGetState
    \/ GetState(SnapshotFields)

SpecSnapshot == InitSelected /\ [][NextSnapshot]_vars

-----------------------------------------------------------------------------
(* Properties *)

\* thread d is inside the capture loop of _run_diagnostic
InCapture(d) == diag_pc[d] \in {"loop", "progress", "capture"}

\* thread d has been started and has not ended
DiagAlive(d) == diag_pc[d] \notin {"idle", "starting", "rejected", "done"}

\* C1: a trigger_diagnostic() call that finds the running flag set is rejected
\* and starts no thread, and no two diagnostic threads are ever inside the
\* capture loop at the same time.
C1_OneCaptureAtATime ==
    [][/\ \A d \in DiagIds :
            (diag_running /\ diag_pc[d] = "idle" /\ diag_pc'[d] # "idle")
                => diag_pc'[d] = "rejected"
       /\ \A d, e \in DiagIds : (InCapture(d)' /\ InCapture(e)') => d = e]_vars

\* a second trigger was rejected while a diagnostic thread was capturing
C1_Witness ==
    \E d, e \in DiagIds : InCapture(d) /\ diag_running /\ diag_pc[e] = "rejected"

\* C3: stop() invokes the pose-source shutdown only after it has waited for
\* every diagnostic thread that is still running.
C3_ShutdownAfterDiagnosticJoin ==
    [][(stop_pc = "shutdown" /\ stop_pc' = "done")
          => \A d \in DiagIds : DiagAlive(d) => "diagnostic" \in joined]_vars

\* the tracker roles, the play area and the two stations a capture needs
DiagnosticReady ==
    /\ Cardinality(DOMAIN _tracker_roles_by_serial(cfg)) = 3
    /\ play_area # None
    /\ Len(stations) = 2

\* C4: trigger_diagnostic() accepts (returns {ok: true}) only when the three
\* tracker roles are selected and the play area and two stations are ready.
C4_TriggerRejectsWhenNotReady ==
    [][\A d \in DiagIds :
          (diag_pc[d] = "idle" /\ diag_pc'[d] = "starting") => DiagnosticReady]_vars

\* the exception of a failed session write
SessionWriteError == Some(<<"OSError", "detail">>)

\* C5: when the session write of a diagnostic fails, last_session and
\* last_metrics keep the values they had before the attempt, and the except
\* handler records the failure in last_error.
C5_FailedWriteNotPublished ==
    [][\A d \in DiagIds :
          /\ diag_exc'[d] = SessionWriteError
                => (last_session' = last_session /\ last_metrics' = last_metrics)
          /\ (diag_exc[d] = SessionWriteError /\ diag_pc[d] = "except"
                 /\ diag_pc'[d] = "finally")
                => last_error' = Some(<<"Diagnostic", SessionWriteError[1]>>)]_vars

\* a session write failed after an earlier diagnostic had published its
\* artifact, and the failure is recorded
C5_Witness ==
    \E d \in DiagIds :
        /\ diag_pc[d] = "finally"
        /\ diag_exc[d] = SessionWriteError
        /\ last_error = Some(<<"Diagnostic", SessionWriteError[1]>>)
        /\ last_session # None

\* C6: a raising init attempt or poll tick publishes connected = false together
\* with a last_error of an error type and a detail; after the first init
\* attempt connected = false implies a non-null last_error; and connected =
\* true is published only by a successful init.
C6_DisconnectedHasError ==
    /\ [](init_attempted => (~connected => last_error # None))
    /\ [][/\ (poller_pc \in {"init_except", "poll_except"} /\ poller_pc' # poller_pc)
              => (~connected' /\ last_error' # None /\ Len(last_error'[1]) = 2)
          /\ (~connected /\ connected')
              => (poller_pc = "init_handles" /\ vr_system' # None
                    /\ last_error' = None)]_vars

\* the engine is disconnected by a failed poll tick after a successful init
C6_Witness ==
    /\ init_attempted
    /\ ~connected
    /\ vr_system # None
    /\ poller_pc = "tick_sleep"
    /\ last_error = Some(<<"PollError", "detail">>)

\* C9: the poller never holds the state lock while one of its pose-source calls
\* is in progress.
C9_NoLockDuringPoseSourceCall == PollerInCall => lock # "poller"

\* C7: every init attempt of the poller starts at least one second after the
\* start of the previous failed init attempt and at least one second after the
\* failed poll tick that disconnected the engine.
C7_InitAfterCooldown ==
    [][(poller_pc = "loop" /\ poller_pc' = "init")
          => (since_init_fail >= Cooldown /\ since_poll_fail >= Cooldown)]_vars

\* C8: the poller thread ends only when the stop flag is set, and once init
\* and poll calls no longer fail the engine gets connected and polls again
\* (unless stop() is called first).
C8_PollerSurvivesFailures ==
    /\ [](poller_pc = "exited" => stop_flag)
    /\ (faults = 0) ~> (stop_flag \/ (connected /\ poller_pc = "poll_fetch"))

\* the poller polls again, connected, shortly after a failed poll tick and
\* with every injected failure used up
C8_Witness ==
    /\ faults = 0
    /\ ~stop_flag
    /\ connected
    /\ poller_pc = "poll_fetch"
    /\ since_poll_fail < Cooldown

\* C2: every accepted trigger_diagnostic() is eventually followed by a state
\* in which the running flag is false, however the run ends.
C2_AcceptedTriggerEnds ==
    \A d \in DiagIds : (diag_pc[d] = "starting") ~> ~diag_running

\* a run that raised has ended with the running flag cleared, after stop()
C2_Witness ==
    \E d \in DiagIds :
        /\ diag_pc[d] = "finally_progress"
        /\ diag_exc[d] # None
        /\ ~diag_running
        /\ stop_flag

\* C10: for every tracker serial, the dropouts value a client is told by
\* get_state() never decreases from one call to a later one.
C10_DropoutsMonotone ==
    [][\A s \in DOMAIN seen : s \in DOMAIN seen' /\ seen'[s] >= seen[s]]_vars

\* a client has been told of a dropout of T1, which the config now leaves
\* out, after a failure of the poller
C10_Witness ==
    /\ "T1" \in DOMAIN seen
    /\ seen["T1"] >= 1
    /\ faults < MaxFaults
    /\ "T1" \notin DOMAIN _tracker_roles_by_serial(cfg)

\* a snapshot without the diagnostic timers (stage and t_s)
NonTimer(view) ==
    [view EXCEPT !.diagnostic = [running |-> @.running,
                                 last_session_timestamp |-> @.last_session_timestamp]]

\* C11: a get_state() call that follows another with no poller tick between
\* the two returns the same value in every field other than the diagnostic
\* timers, whatever else the engine did in between.
C11_SnapshotsEqualBetweenTicks ==
    [][(reader_pc = "waiting" /\ reader_pc' = "idle" /\ snap # None /\ ~ticked)
          => NonTimer(snap'[1]) = NonTimer(snap[1])]_vars

\* C12: in every snapshot a tracker entry with connected = false has
\* pos_m = null, also when the tracker had a pose on an earlier tick and has
\* none on the latest one.
C12_DisconnectedHasNoPosition ==
    \A s \in DOMAIN GetStateView.trackers :
        ~GetStateView.trackers[s].connected => GetStateView.trackers[s].pos_m = None

\* C13: after every poll tick the live jitter window of each selected tracker
\* holds only entries that are at most 1.0 s old at that tick, also on ticks
\* where the tracker's pose is missing or not OK.
C13_WindowHoldsLastSecond ==
    \A s \in DOMAIN _tracker_roles_by_serial(cfg) \cap DOMAIN tracker_stats :
        \A i \in 1..Len(tracker_stats[s].window) :
            tracker_stats[s].window[i].age <= Window

\* the step that ends the locked block of _poll_once
PollTick == poller_pc = "poll_play_area" /\ poller_pc' = "tick_sleep"

\* C14: on a poll tick with a play area and exactly two stations, coverage is
\* recomputed if and only if the key of the rounded inputs differs from the
\* stored key or nothing is cached; on a key match the cached result is
\* published unchanged.
C14_RecomputeIffKeyDiffers ==
    [][(PollTick /\ play_area' # None /\ Len(stations') = 2)
          => IF /\ coverage_key = Some(CoverageKey(play_area'[1], stations'))
                /\ coverage # None
             THEN coverage' = coverage /\ coverage_key' = coverage_key
             ELSE /\ coverage' = Some(compute_coverage(play_area'[1], stations'))
                  /\ coverage_key' = Some(CoverageKey(play_area'[1], stations'))]_vars

\* a key match has published a cached result that a recomputation from the
\* inputs of the tick would not give
C14_Witness ==
    /\ poller_pc = "tick_sleep"
    /\ play_area # None /\ Len(stations) = 2
    /\ coverage # None
    /\ coverage_key = Some(CoverageKey(play_area[1], stations))
    /\ coverage[1] # compute_coverage(play_area[1], stations)

\* the first poll tick after a force_recompute() that found a cached result
TickAfterReset == PollTick /\ prior_coverage # None

\* C15 as stated: the tick after force_recompute(), with the play area and the
\* stations that were published before the reset, publishes a coverage equal
\* to the one cached before the reset.
C15_RecomputeEqualsCached ==
    [][(TickAfterReset /\ play_area' = play_area /\ stations' = stations)
          => coverage' = prior_coverage]_vars

\* C15: force_recompute() clears the cache key and the cached result, and the
\* next poll tick with a play area and two stations computes the coverage from
\* its own inputs; it equals the result cached before the reset when that
\* result was computed from the same inputs.
C15_RecomputeAfterReset ==
    [][(TickAfterReset /\ play_area' # None /\ Len(stations') = 2)
          => /\ coverage' = Some(compute_coverage(play_area'[1], stations'))
             /\ (prior_coverage = Some(compute_coverage(play_area'[1], stations'))
                    => coverage' = prior_coverage)]_vars

\* a tick after a reset has published a coverage that differs from the one cached
\* before the reset, on the inputs published before the reset
C15_Witness ==
    /\ poller_pc = "tick_sleep"
    /\ coverage # None
    /\ reset_coverage # None
    /\ coverage # reset_coverage

\* the poller's per-tick load_config()
PollerLoads == poller_pc = "poll_lock" /\ poller_pc' = "poll_play_area"

\* C16: a load_config() that overlaps a save_config() returns the complete old
\* config or the complete new one, never a partial or a defaulted one.
C16_LoadDuringSaveOldOrNew ==
    [][(PollerLoads /\ cfg_file.kind = "partial")
          => cfg' \in {load_config(cfg_file.old), cfg_file.data}]_vars

\* C17: a corrupt config file is left in place: load_config returns the
\* defaults and no engine operation that follows overwrites the file.
C17_CorruptFileLeftInPlace ==
    [][cfg_file = CorruptFile => cfg_file' = CorruptFile]_vars

\* C18: session files are write-once: save_session never overwrites an
\* existing session file, also when two runs finish within the same second.
C18_SessionFilesWriteOnce ==
    [][\A ts \in DOMAIN session_files :
          ts \in DOMAIN session_files' /\ session_files'[ts] = session_files[ts]]_vars

\* the samples are in strictly increasing t_s
Increasing(samples) ==
    \A i, j \in 1..Len(samples) : i < j => samples[i].t_s < samples[j].t_s

\* C19: the samples of every session artifact of a diagnostic run are in
\* strictly increasing t_s: each appended sample has a t_s greater than all
\* earlier samples of the run.
C19_SamplesIncreasing ==
    /\ \A d \in DiagIds : Increasing(diag_samples[d])
    /\ \A ts \in DOMAIN session_files : Increasing(session_files[ts].samples)
    /\ last_session # None => Increasing(last_session[1].samples)

\* an artifact with more than one sample was written and published
C19_Witness ==
    /\ last_session # None
    /\ Len(last_session[1].samples) >= 2
    /\ \E ts \in DOMAIN session_files : session_files[ts] = last_session[1]

\* the tracking references with a serial and a valid pose, in enumeration order
ValidRefs(devs) ==
    LET IsRef(d) == /\ d.cls = "TrackingReference"
                    /\ d.serial # NoSerial
                    /\ d.pose # None
                    /\ d.pose[1].pose_valid
    IN  SelectSeq(devs, IsRef)

\* C20: a poll tick writes station_a / station_b into the config only when a
\* station serial is unset and exactly two tracking references with valid
\* poses are present, and then in enumeration order; with three or more
\* references nothing is adopted.
C20_AdoptOnlyExactlyTwo ==
    [][(PollTick /\ cfg'.base_stations # cfg.base_stations)
          => /\ cfg.base_stations.station_a = NoSerial \/ cfg.base_stations.station_b = NoSerial
             /\ Len(ValidRefs(devices)) = 2
             /\ cfg'.base_stations = [station_a |-> ValidRefs(devices)[1].serial,
                                      station_b |-> ValidRefs(devices)[2].serial]]_vars

\* a station serial that is set stays as it is over the step
StationSerialsKept ==
    /\ cfg.base_stations.station_a # NoSerial
          => cfg'.base_stations.station_a = cfg.base_stations.station_a
    /\ cfg.base_stations.station_b # NoSerial
          => cfg'.base_stations.station_b = cfg.base_stations.station_b

\* with both serials set, the stations of the engine are among the two
OnlyConfiguredStations ==
    (cfg'.base_stations.station_a # NoSerial /\ cfg'.base_stations.station_b # NoSerial)
        => \A i \in 1..Len(stations') :
              stations'[i].serial \in {cfg'.base_stations.station_a,
                                       cfg'.base_stations.station_b}

\* C21: a station_a or station_b serial that is set in the config is never
\* replaced by the poller, and while both are set the station list of the
\* engine holds only stations with those two serials, whatever other tracking
\* references are enumerated.
C21_ConfiguredStationsPreferred ==
    [][PollTick => StationSerialsKept /\ OnlyConfiguredStations]_vars

\* the generic trackers with a serial, in enumeration order
Trackers(devs) ==
    LET IsTracker(d) == d.cls = "GenericTracker" /\ d.serial # NoSerial
    IN  SelectSeq(devs, IsTracker)

\* C22: tracker roles are adopted only when unset: a poll tick changes the
\* roles only with at least three generic trackers present, and a role whose
\* serial is already configured is never changed by the poller.
C22_RolesAdoptedOnlyWhenUnset ==
    [][(PollTick /\ cfg'.trackers # cfg.trackers)
          => /\ Len(Trackers(devices)) >= 3
             /\ \A role \in DOMAIN cfg.trackers :
                   cfg.trackers[role] # NoSerial
                       => cfg'.trackers[role] = cfg.trackers[role]]_vars


\* the handler answers a request with 404 {error: "not found"}
AnsweredNotFound == http_resp' = Response(404, NotFoundBody)

\* a handler step for a request outside the documented interface
HandlesUnknown == http_req # None /\ http_req' = None /\ http_req[1] \notin KnownRequests

\* C23: a request that is none of GET /state, POST /run_diagnostic,
\* POST /recompute, POST /shutdown is answered with 404 {error: "not found"},
\* and its handler changes nothing of the engine: no diagnostic is triggered,
\* the coverage cache is kept, the shutdown event is not set
C23_UnknownRequestIs404 ==
    [][HandlesUnknown =>
          /\ AnsweredNotFound
          /\ UNCHANGED <<engine_vars, diag_vars, shutdown_requested>>]_vars

\* C24: once a POST /shutdown was handled, the server stops serving
C24_ShutdownTerminatesServer == shutdown_requested ~> ~http_serving


\* a call of analyze_diagnostic_session has returned
Analyzed ==
    /\ call_args # None
    /\ call_args[1].fn = "analyze_diagnostic_session"
    /\ call_result # None

OkAt(samples, i, s) == s \in DOMAIN samples[i].trackers /\ samples[i].trackers[s].ok

\* the samples at which tracker s goes from ok to not ok, in order
Losses(samples, s) ==
    SelectSeq([i \in 1..Len(samples) |-> i],
              LAMBDA i : i > 1 /\ OkAt(samples, i - 1, s) /\ ~OkAt(samples, i, s))

\* the ok samples of tracker s after sample i
Recoveries(samples, i, s) == {j \in (i + 1)..Len(samples) : OkAt(samples, j, s)}

\* C26: a tracker has one DropoutEvent per ok -> not-ok transition of its
\* samples, in order: the event starts at the timestamp of the first not-ok
\* sample and ends at the timestamp of the next ok sample; dropout_count is
\* the number of the events and dropout_duration_s the sum of their durations
C26_OneEventPerTransition ==
    Analyzed =>
        \A s \in DOMAIN call_result[1] :
            LET samples == call_args[1].samples
                m == call_result[1][s]
                losses == Losses(samples, s)
            IN  /\ Len(m.dropouts) = Len(losses)
                /\ \A k \in 1..Len(losses) :
                       /\ m.dropouts[k].start_s = samples[losses[k]].t_s
                       /\ Recoveries(samples, losses[k], s) # {} =>
                              m.dropouts[k].end_s =
                                  samples[SetMin(Recoveries(samples, losses[k], s))].t_s
                /\ m.dropout_count = Len(losses)
                /\ m.dropout_duration_s = SumDurations(m.dropouts)

\* ok at 0 s, not ok from 1.0 s, ok again at 2.5 s: one dropout {1.0, 2.5, 1.5}
C26_Witness ==
    /\ Analyzed
    /\ Len(call_args[1].samples) = 3
    /\ call_result[1]["T1"].dropout_count = 1
    /\ call_result[1]["T1"].dropout_duration_s = 15
    /\ call_result[1]["T1"].dropouts[1].start_s = 10
    /\ call_result[1]["T1"].dropouts[1].end_s = 25
    /\ call_result[1]["T1"].dropouts[1].duration_s = 15

\* tracker s was ok at some sample and is not ok from a later one to the last
OpenAtEnd(samples, s) ==
    /\ samples # <<>>
    /\ ~OkAt(samples, Len(samples), s)
    /\ \E i \in 1..Len(samples) : OkAt(samples, i, s)

\* the first sample of the not-ok run that ends the samples
LastLoss(samples, s) == 1 + SetMax({i \in 1..Len(samples) : OkAt(samples, i, s)})

Inferred ==
    /\ call_args # None
    /\ call_args[1].fn = "_infer_likely_station"
    /\ call_result # None

\* the stations of the call that see the point, and those that do not
Seeing(call) ==
    {i \in 1..Len(call.stations) : station_sees_point(call.stations[i], call.point)}
Blind(call) == (1..Len(call.stations)) \ Seeing(call)

\* exactly one of two stations fails the visibility test
OneOfTwoBlind(call) ==
    Len(call.stations) = 2 /\ Cardinality(Seeing(call)) = 1 /\ Cardinality(Blind(call)) = 1

Recommended ==
    /\ call_args # None
    /\ call_args[1].fn = "generate_recommendations"
    /\ call_result # None

\* the place of a target in the order Station A, Station B, General
TargetRank(target) ==
    IF target = StationATarget THEN 0 ELSE IF target = StationBTarget THEN 1 ELSE 2

\* C29: in the list generate_recommendations returns every Station A item
\* comes before every Station B item and every Station B item before every
\* General item; items of the same target are in the order of their texts
C29_SortedByTargetThenText ==
    Recommended =>
        \A i, j \in 1..Len(call_result[1]) :
            i < j =>
                LET a == call_result[1][i]
                    b == call_result[1][j]
                IN  /\ a.target \in {StationATarget, StationBTarget, GeneralTarget}
                    /\ TargetRank(a.target) <= TargetRank(b.target)
                    /\ a.target = b.target => (a.text = b.text \/ TextLess(a.text, b.text))

\* a list with items for Station A, Station B and General, two of them for
\* the same target, where the rules had appended a General item first
C29_Witness ==
    /\ Recommended
    /\ {call_result[1][i].target : i \in 1..Len(call_result[1])} =
           {StationATarget, StationBTarget, GeneralTarget}
    /\ \E i \in 1..(Len(call_result[1]) - 1) :
           call_result[1][i].target = call_result[1][i + 1].target
    /\ call_args[1].coverage # None
    /\ call_args[1].coverage[1].overlap_pct_foot < 3500

\* the low-foot-overlap items of a list
FootItems(recs) ==
    {i \in 1..Len(recs) : StartsWith(recs[i].text, <<70, 111, 111, 116>>)}

\* C30: the low-foot-overlap recommendation is in the list exactly when a
\* coverage is present and its overlap_pct_foot is below 55; its confidence is
\* High when overlap_pct_foot is below 35 and Med otherwise, so Med at 35
C30_LowFootOverlapRule ==
    Recommended =>
        LET cov == call_args[1].coverage
            items == FootItems(call_result[1])
        IN  /\ items # {} <=> (cov # None /\ cov[1].overlap_pct_foot < 5500)
            /\ \A i \in items :
                   call_result[1][i].confidence =
                       IF cov[1].overlap_pct_foot < 3500 THEN "High" ELSE "Med"


\* a call of compute_coverage has returned
Computed ==
    /\ call_args # None
    /\ call_args[1].fn = "compute_coverage"
    /\ call_result # None

\* C31: for the default 2 m x 2 m square every cell of the bounding box is
\* marked inside, the cells on the corners and on the edges of largest x and
\* largest y included
C31_DefaultSquareAllInside ==
    (Computed /\ call_args[1].play_area = DefaultPlayArea) =>
        /\ Len(call_result[1].inside_mask) = call_result[1].grid_w * call_result[1].grid_h
        /\ \A k \in 1..Len(call_result[1].inside_mask) : call_result[1].inside_mask[k]

\* C32: inside_mask, score_foot and score_waist have w * h entries, every
\* score is 0, 1 or 2, and both scores are 0 at every cell that is not inside
C32_ScoresZeroOutside ==
    Computed =>
        LET r == call_result[1]
            n == r.grid_w * r.grid_h
        IN  /\ Len(r.inside_mask) = n
            /\ Len(r.score_foot) = n
            /\ Len(r.score_waist) = n
            /\ \A k \in 1..n :
                   /\ r.score_foot[k] \in {0, 1, 2}
                   /\ r.score_waist[k] \in {0, 1, 2}
                   /\ ~r.inside_mask[k] => (r.score_foot[k] = 0 /\ r.score_waist[k] = 0)

\* a result with cells outside the play area, and with a cell that two
\* stations see at both heights
C32_Witness ==
    /\ Computed
    /\ \E k \in 1..Len(call_result[1].inside_mask) : ~call_result[1].inside_mask[k]
    /\ \E k \in 1..Len(call_result[1].inside_mask) :
           call_result[1].score_foot[k] = 2 /\ call_result[1].score_waist[k] = 2

\* C33: the live dropout counter is edge-triggered: after any sequence of poll
\* ticks a selected tracker's dropouts is the number of pairs of consecutive
\* ticks with the tracker OK on the earlier and not OK on the later; a tick on
\* which it stays not OK, and its first tick, add nothing.
C33_DropoutsCountEdges ==
    \A s \in DOMAIN tracker_stats :
        /\ s \in DOMAIN tick_history.edges
        /\ tracker_stats[s].dropouts = tick_history.edges[s]

\* a tracker has one dropout and has stayed not OK over a later tick
C33_Witness ==
    /\ tick_history.stayed
    /\ \E s \in DOMAIN tracker_stats :
          /\ tracker_stats[s].dropouts = 1
          /\ ~tracker_stats[s].tracking_ok
          /\ tick_history.edges[s] = 1

\* the stages of the diagnostic as the half-open intervals [lo, hi) of the
\* elapsed time, in order
StageTable ==
    <<[lo |-> 0, hi |-> 10, label |-> "0-10s: Stand still at center"],
      [lo |-> 10, hi |-> 25, label |-> "10-25s: Slow 360 turn"],
      [lo |-> 25, hi |-> 35, label |-> "25-35s: Squat + stand"],
      [lo |-> 35, hi |-> 50, label |-> "35-50s: Step side-to-side"],
      [lo |-> 50, hi |-> 55, label |-> "50-55s: Face Station A"],
      [lo |-> 55, hi |-> 60, label |-> "55-60s: Face Station B"]>>

\* the place of a stage label in the order of the stages; Finishing is last
StageRank(label) ==
    IF \E i \in 1..Len(StageTable) : StageTable[i].label = label
    THEN CHOOSE i \in 1..Len(StageTable) : StageTable[i].label = label
    ELSE Len(StageTable) + 1

\* the label of the interval that contains t
IntervalLabel(t) ==
    IF \E i \in 1..Len(StageTable) : StageTable[i].lo <= t /\ t < StageTable[i].hi
    THEN StageTable[CHOOSE i \in 1..Len(StageTable) :
                        StageTable[i].lo <= t /\ t < StageTable[i].hi].label
    ELSE "Finishing..."

\* C34: while a diagnostic runs, the published stage is the label of the
\* interval that contains the elapsed time t; within a run the stages come in
\* the order of the intervals and t_s never decreases; when the run ends the
\* progress is reset to stage Idle with t_s = 0.
C34_StagesFollowTheClock ==
    [][\A d \in DiagIds :
          /\ (diag_pc[d] = "progress" /\ diag_pc'[d] = "capture")
                => /\ diag_progress'.stage = IntervalLabel(diag_t[d])
                   /\ diag_progress'.t_s = diag_t[d]
                   /\ diag_progress.stage \notin {"Starting", "Idle"}
                         => /\ StageRank(diag_progress'.stage) >= StageRank(diag_progress.stage)
                            /\ diag_progress'.t_s >= diag_progress.t_s
          /\ (diag_pc[d] # "done" /\ diag_pc'[d] = "done")
                => diag_progress' = [stage |-> "Idle", t_s |-> 0]]_vars

\* a run that took a sample at 10 s, the start of the second stage, is now at
\* 60 s, past the last one
C34_Witness ==
    /\ diag_running
    /\ diag_progress.stage = "Finishing..."
    /\ \E d \in DiagIds :
          /\ diag_pc[d] = "capture"
          /\ diag_t[d] = 60
          /\ \E i \in 1..Len(diag_samples[d]) : diag_samples[d][i].t_s = 10

\* the samples up to time t that carry a position of tracker `serial`
WithPosition(samples, serial, t) ==
    {i \in 1..Len(samples) :
        /\ samples[i].t_s <= t
        /\ serial \in DOMAIN samples[i].trackers
        /\ samples[i].trackers[serial].pos # None}

\* C35: the occluder inference of a dropout is computed from the tracker's
\* last-known position, the one of the most recent sample that carries one,
\* also when the sample that opens the dropout is a bare {ok: false} entry;
\* and station_margins_deg then has a margin for every station.
C35_InferredFromLastKnown ==
    Analyzed =>
        \A s \in DOMAIN call_result[1] :
            \A i \in 1..Len(call_result[1][s].dropouts) :
                LET e == call_result[1][s].dropouts[i]
                    known == WithPosition(call_args[1].samples, s, e.start_s)
                IN  known # {} =>
                        /\ e.likely_station_serial =
                               _infer_likely_station(
                                   call_args[1].stations,
                                   call_args[1].samples[SetMax(known)].trackers[s].pos[1])
                        /\ \A k \in 1..Len(call_args[1].stations) :
                               \E j \in 1..Len(e.station_margins_deg) :
                                   e.station_margins_deg[j] = call_args[1].stations[k].serial

\* a call of compute_heatmap has returned a heatmap
HeatComputed ==
    /\ call_args # None
    /\ call_args[1].fn = "compute_heatmap"
    /\ call_result # None
    /\ call_result[1] # None

\* the points of the files that parse whose position falls in the cell at
\* column xi and row yi of a grid of `step` from (min_x, min_y)
FallingIn(files, min_x, min_y, step, xi, yi) ==
    {pt \in HeatPoints(files) :
        LET pos == files[pt[1]][1].samples[pt[2]].trackers[pt[3]].pos[1]
        IN  /\ min_x + xi * step <= pos[1] /\ pos[1] < min_x + (xi + 1) * step
            /\ min_y + yi * step <= pos[2] /\ pos[2] < min_y + (yi + 1) * step}

\* C36: in the historical heatmap score[i] is -1 exactly for the cells outside
\* the play-area polygon; for an inside cell it is round(100 * ok / (ok + bad))
\* over the tracker samples, of every session file that parses, whose position
\* falls in the cell, and 50 when none does; a file that does not parse is
\* skipped.
C36_HeatmapScores ==
    HeatComputed =>
        LET hm == call_result[1][1]
            files == call_args[1].files
            poly == call_args[1].play_area.corners_m
        IN  \A k \in 1..(hm.w * hm.h) :
                LET xi == (k - 1) % hm.w
                    yi == (k - 1) \div hm.w
                    centre == <<hm.origin_m[1] + (2 * xi + 1) * (hm.step_m \div 2),
                                hm.origin_m[2] + (2 * yi + 1) * (hm.step_m \div 2)>>
                    pts == FallingIn(files, hm.origin_m[1], hm.origin_m[2], hm.step_m, xi, yi)
                    n_ok == Cardinality({pt \in pts :
                                files[pt[1]][1].samples[pt[2]].trackers[pt[3]].ok})
                IN  /\ (hm.score[k] = -1) <=> ~point_in_poly(centre, poly)
                    /\ point_in_poly(centre, poly) =>
                          hm.score[k] = IF pts = {} THEN 50
                                        ELSE RoundHalfEven(100 * n_ok, Cardinality(pts))

\* C37: in every snapshot diagnostic.running = true implies that
\* diagnostic.stage is not Idle, under any interleaving of get_state() with
\* trigger_diagnostic() and with the last steps of an earlier diagnostic
\* thread; and running = false implies stage = Idle and t_s = 0.
C37_RunningHasStage ==
    (snap # None /\ "diagnostic" \in DOMAIN snap[1]) =>
        /\ snap[1].diagnostic.running => snap[1].diagnostic.stage # "Idle"
        /\ ~snap[1].diagnostic.running =>
              /\ snap[1].diagnostic.stage = "Idle"
              /\ snap[1].diagnostic.t_s = 0

\* C38: in every snapshot coverage (and the heatmap made from it) is non-null
\* only if play_area is non-null and exactly two stations are listed, and the
\* coverage is the one computed for that play area and those stations, also
\* after a poll tick that raised part-way and after force_recompute().
C38_CoverageMatchesInputs ==
    (lock = "free" /\ GetStateView.coverage # None) =>
        /\ GetStateView.play_area # None
        /\ Len(GetStateView.stations) = 2
        /\ play_area # None =>
              GetStateView.coverage[1] = compute_coverage(play_area[1], stations)

\* C39: when the stop flag is set during a capture, the diagnostic thread
\* leaves the loop and still composes, persists and publishes a session
\* artifact of the samples it has, with duration_s the requested duration,
\* before it clears the running flag; an interrupted run is not discarded.
C39_InterruptedRunIsPublished ==
    [][\A d \in DiagIds :
          /\ (stop_flag /\ InCapture(d)) => diag_pc'[d] # "except"
          /\ (stop_flag /\ diag_pc[d] = "finally" /\ diag_pc'[d] # "finally"
                  /\ diag_roles[d] # <<>> /\ diag_snap[d] # None)
                => /\ diag_session[d] # None
                   /\ last_session = Some(diag_session[d][1].session)
                   /\ last_session[1].duration_s = diag_dur[d]
                   /\ last_session[1].samples = diag_samples[d]
                   /\ last_session[1].timestamp \in DOMAIN session_files]_vars

\* a step of the poller thread
PollerStep == poller_pc' # poller_pc

\* what a snapshot reports of the room
RoomState == <<play_area, stations, coverage, coverage_key, tracker_stats>>

\* while the engine is disconnected the poller leaves the room state alone
DisconnectedPollerKeepsRoom ==
    [][(PollerStep /\ ~connected) => UNCHANGED RoomState]_vars

\* C40: while the engine is disconnected, from a failed poll or init until the
\* next successful init followed by a poll, the poller leaves the play area,
\* the stations, the coverage and its key and every tracker's live stats
\* unchanged, so that snapshots of that period report connected = false with
\* the values of the last successful poll: neither the tick that fails nor a
\* step taken while disconnected changes them.
C40_DisconnectedKeepsLastPoll ==
    /\ DisconnectedPollerKeepsRoom
    /\ [][(PollerStep /\ poller_pc' = "poll_except") => UNCHANGED RoomState]_vars

====
